---------------------------- MODULE Spec2Model ----------------------------
(***************************************************************************)
(* A model of the QuantumOS kernel core: the IPC message system            *)
(* (kernel/src/ipc/ipc.c), the process table (kernel/src/process.c) and    *)
(* the resonant scheduler (kernel/src/resonance/resonant_scheduler.c).     *)
(*                                                                         *)
(* Table capacities are scaled down (MAX_PROCESSES, MAX_PORTS, ...): the   *)
(* code is written against the capacities symbolically, and the entry pool *)
(* keeps its ratio ENTRY_POOL_SIZE = MAX_PROCESSES * IPC_MAX_QUEUE_SIZE.   *)
(* Pointers into a static array are modelled as 1-based indices, the null  *)
(* pointer as NULL = 0.                                                    *)
(***************************************************************************)
EXTENDS Integers, Sequences, FiniteSets, TLC

(***************************************************************************)
(* Capacities (scaled) and budgets of the model.                           *)
(***************************************************************************)
MAX_PROCESSES == 3
MAX_PORTS == 2
MAX_CHANNELS == 1
IPC_MAX_QUEUE_SIZE == 3
MAX_SHARED_REGIONS == 2
MAX_GRANTS_PER_REGION == 2
MaxIpcCalls == 5
MaxFillCalls == 6
MaxQueueCalls == 7
MaxShareCalls == 5
MaxProcCalls == 4
MAX_RESONANT_PROCESSES == 3
MaxSchedCalls == 5
MaxPortCalls == 5
MaxBootCalls == 4
MaxLifeCalls == 4
MaxTuneCalls == 4
MaxCoupleCalls == 4
MaxOscCalls == 9
MaxPoolCalls == 5
MaxDeliverCalls == 3
MaxCoreCalls == 4
MaxReapCalls == 3
MaxMemCalls == 4
MaxIrqCalls == 4
TOTAL_MEMORY == 32768
END_OF_KERNEL == 1
IDT_ENTRIES == 2

(***************************************************************************)
(* Program constants.                                                      *)
(***************************************************************************)
NULL == 0
PAGE_SIZE == 4096
PAGE_SHIFT == 12
MEM_READ == 1
MEM_WRITE == 2
MEM_EXECUTE == 4
MEM_USER == 8
IPC_PID_KERNEL == 0
IPC_PID_ANY == -1
IPC_MAX_MESSAGE_SIZE == 4096
IPC_PORT_CLOSED == 0
IPC_PORT_OPEN == 1
IPC_PORT_LISTENING == 2
IPC_SHARE_READ == 1
IPC_SHARE_WRITE == 2
IPC_SHARE_EXEC == 4
PORT_NAME_SIZE == 64
PROCESS_NAME_MAX_LEN == 64
KERNEL_PROCESS_ID == 0
PRIORITY_IDLE == 0
PRIORITY_LOW == 1
PRIORITY_NORMAL == 2
PRIORITY_KERNEL == 5
PROCESS_MAGIC == 1347571523
RPCB_MAGIC == 1381191252
DEFAULT_QUANTUM_NS == 10000000
max_coupled == 8
\* 0.1 and 3.0 in thousandths
emergence_threshold == 100
PHI_CONSCIOUSNESS_THRESHOLD == 3000
\* Coupling strengths, coherence and the asymmetry bound in thousandths.
LAMBDA_DEFAULT == 100
LAMBDA_MIN == 10
LAMBDA_MAX == 500
COHERENCE_TARGET == 700
COHERENCE_MIN == 300
COHERENCE_HIGH == 850
CHIRAL_STABLE_MAX == 1000
\* Chiral eta and gamma in millionths: 0.618 and the configured gamma 1.0.
ETA_OPTIMAL == 618000
config_gamma == 1000000

(***************************************************************************)
(* A uint32_t is held as the 32-bit word in two's complement: the values   *)
(* 0 .. 2^31 - 1 as themselves and 2^31 .. 2^32 - 1 as value - 2^32, so    *)
(* that 0xFFFFFFFF is -1.  U32Inc and U32Dec are ++ and -- on that word,   *)
(* U32Less the unsigned order.                                             *)
(***************************************************************************)
INT32_MAX == (2 ^ 30 - 1) + 2 ^ 30
INT32_MIN == (0 - INT32_MAX) - 1
U32Inc(n) == IF n = INT32_MAX THEN INT32_MIN ELSE n + 1
U32Dec(n) == IF n = INT32_MIN THEN INT32_MAX ELSE n - 1
U32Less(a, b) == IF (a >= 0) = (b >= 0) THEN a < b ELSE a >= 0

\* A uint32_t* argument: <<>> is the null pointer, <<v>> points at a word v.
NullPtr == <<>>
Ptr(v) == <<v>>
ENTRY_POOL_SIZE == MAX_PROCESSES * IPC_MAX_QUEUE_SIZE

Pids == 0 .. (MAX_PROCESSES - 1)
PortSlots == 1 .. MAX_PORTS
ChannelSlots == 1 .. MAX_CHANNELS
PoolIdx == 1 .. ENTRY_POOL_SIZE
RegionSlots == 1 .. MAX_SHARED_REGIONS
GrantSlots == 1 .. MAX_GRANTS_PER_REGION

VARIABLES
    \* ---- ipc.c ----
    process_queues,     \* [Pids -> ipc_queue_t]
    queue_initialized,  \* [Pids -> BOOLEAN]
    ports,              \* [PortSlots -> ipc_port_t]
    next_port_id,
    channels,           \* [ChannelSlots -> ipc_channel_t]
    next_channel_id,
    next_message_id,
    entry_pool,         \* [PoolIdx -> ipc_queue_entry_t]
    entry_in_use,       \* [PoolIdx -> BOOLEAN]
    total_dropped,      \* ipc_global_stats.total_dropped
    shared_regions,     \* [RegionSlots -> ipc_shared_region_t]
    region_grants,      \* [RegionSlots -> [GrantSlots -> ipc_region_grant_t]]
    next_region_id,
    \* ---- process.c ----
    process_table,              \* [Pids -> process_t]
    process_table_initialized,
    current_process,            \* pointer to a PCB
    current_pid,
    ready_queue,                \* [priority -> pointer to the first PCB]
    process_statistics,
    \* ---- resonant_scheduler.c ----
    rpcb_table,                 \* [RPids -> resonant_pcb_t]
    queen_state,
    scheduler_initialized,
    decision,                   \* the caller's scheduling_decision_t
    \* ---- memory.c ----
    pmm,                        \* physical_memory_t
    vmm,                        \* virtual_memory_t
    phys_mem,                   \* [frame -> page table held in the frame]
    mem_before,                 \* phys_mem and pmm before the most recent memory call
    \* ---- interrupts.c ----
    interrupt_handlers,         \* [vector -> interrupt_handler_info_t]
    \* ---- the most recent call: its arguments, return value and outputs ----
    last,
    \* ---- number of calls made so far in the run ----
    calls

ipcVars == <<process_queues, queue_initialized, ports, next_port_id, channels,
             next_channel_id, next_message_id, entry_pool, entry_in_use,
             total_dropped>>
shareVars == <<shared_regions, region_grants, next_region_id>>
memVars == <<pmm, vmm, phys_mem, mem_before>>
hwVars == <<memVars, interrupt_handlers>>
procVars == <<process_table, process_table_initialized, current_process, current_pid,
              ready_queue, process_statistics>>
schedVars == <<rpcb_table, queen_state, scheduler_initialized, decision>>

(***************************************************************************)
(* Records.                                                                *)
(***************************************************************************)
\* ipc_message_t: the fields the kernel reads or writes; timestamp is always
\* get_timestamp_ns() = 0 and is left out.
Message(s, r, id, len, d) ==
    [sender_id |-> s, receiver_id |-> r, message_id |-> id, length |-> len, data |-> d]

ZeroMessage == Message(0, 0, 0, 0, "")

\* A zero-filled ipc_queue_t (static storage before any initialisation).
ZeroQueue ==
    [head |-> NULL, tail |-> NULL, count |-> 0, max_size |-> 0, dropped |-> 0,
     state |-> IPC_PORT_CLOSED]

\* What ipc_init, ipc_process_init, ipc_port_create and ipc_channel_create
\* write into a queue.
FreshQueue(st) ==
    [head |-> NULL, tail |-> NULL, count |-> 0, max_size |-> IPC_MAX_QUEUE_SIZE,
     dropped |-> 0, state |-> st]

ZeroEntry == [message |-> ZeroMessage, next |-> NULL, prev |-> NULL]

\* op: the operation; caller: the process making the call; target, arg: its
\* integer arguments; filter: the sender_id pointer passed to a receive; res:
\* the result code; msg: the message stored or returned; sender: what the
\* sender_id pointer holds on return; in: the message passed to a send.
NoCall ==
    [op |-> "none", caller |-> 0, target |-> 0, arg |-> 0, filter |-> NullPtr,
     res |-> "none", msg |-> ZeroMessage, sender |-> NullPtr, in |-> ZeroMessage]

Call(op, caller, target, arg, res, msg, sender, in) ==
    [op |-> op, caller |-> caller, target |-> target, arg |-> arg, filter |-> NullPtr,
     res |-> res, msg |-> msg, sender |-> sender, in |-> in]

RecvCall(op, caller, target, filter, res, msg, sender) ==
    [op |-> op, caller |-> caller, target |-> target, arg |-> 0, filter |-> filter,
     res |-> res, msg |-> msg, sender |-> sender, in |-> ZeroMessage]

(***************************************************************************)
(* get_current_pid: a placeholder that returns the kernel pid whichever    *)
(* process is running.  The calls record it as their caller, except send   *)
(* and receive, which record the process that really makes the call.       *)
(***************************************************************************)
get_current_pid == IPC_PID_KERNEL

(***************************************************************************)
(* Entry pool.                                                             *)
(***************************************************************************)
\* queue_alloc_entry: the first slot not in use, or NULL.
queue_alloc_entry(inuse) ==
    IF \E i \in PoolIdx : ~inuse[i]
    THEN CHOOSE i \in PoolIdx : ~inuse[i] /\ \A j \in PoolIdx : j < i => inuse[j]
    ELSE NULL

\* A release that passes over the first slot of the pool.
queue_free_entry_after_first(inuse, e) ==
    IF e = NULL THEN inuse
    ELSE IF e \in PoolIdx /\ e > 1 THEN [inuse EXCEPT ![e] = FALSE] ELSE inuse

\* queue_free_entry
queue_free_entry(inuse, e) ==
    IF e = NULL THEN inuse
    ELSE IF e \in PoolIdx THEN [inuse EXCEPT ![e] = FALSE] ELSE inuse

(***************************************************************************)
(* queue_enqueue: returns the result code and the new queue, pool, in-use   *)
(* map and global drop counter.                                            *)
(***************************************************************************)
queue_enqueue(q, pool, inuse, drops, msg) ==
    IF q.count >= q.max_size
    THEN [res |-> "IPC_ERROR_BUFFER_FULL", q |-> [q EXCEPT !.dropped = U32Inc(@)],
          pool |-> pool, inuse |-> inuse, drops |-> drops + 1]
    ELSE LET e == queue_alloc_entry(inuse) IN
         IF e = NULL
         THEN [res |-> "IPC_ERROR_OUT_OF_MEMORY",
               q |-> [q EXCEPT !.dropped = U32Inc(@)],
               pool |-> pool, inuse |-> inuse, drops |-> drops + 1]
         ELSE LET p1 == [pool EXCEPT ![e] = [message |-> msg, next |-> NULL,
                                              prev |-> q.tail]]
                  p2 == IF q.tail # NULL
                        THEN [p1 EXCEPT ![q.tail].next = e]
                        ELSE p1
              IN [res |-> "IPC_SUCCESS",
                  q |-> [q EXCEPT !.head = IF q.tail # NULL THEN q.head ELSE e,
                                  !.tail = e,
                                  !.count = q.count + 1],
                  pool |-> p2, inuse |-> [inuse EXCEPT ![e] = TRUE],
                  drops |-> drops]

(***************************************************************************)
(* queue_dequeue.  filter_sender is a pointer to IPC_PID_ANY or to a       *)
(* sender id, or the null pointer; on success the sender is written back   *)
(* through it.                                                             *)
(***************************************************************************)
\* A scan that keeps going after a match and so returns the last entry of
\* the sender instead of the first.
RECURSIVE FindSenderLast(_, _, _, _)
FindSenderLast(pool, e, sender, fuel) ==
    IF e = NULL \/ fuel = 0 THEN NULL
    ELSE LET later == FindSenderLast(pool, pool[e].next, sender, fuel - 1) IN
         IF later # NULL THEN later
         ELSE IF pool[e].message.sender_id = sender THEN e
         ELSE NULL

RECURSIVE FindSender(_, _, _, _)
FindSender(pool, e, sender, fuel) ==
    IF e = NULL \/ fuel = 0 THEN NULL
    ELSE IF pool[e].message.sender_id = sender THEN e
    ELSE FindSender(pool, pool[e].next, sender, fuel - 1)

queue_dequeue(q, pool, inuse, filter_sender) ==
    LET none == [res |-> "IPC_ERROR_NO_MESSAGE", q |-> q, pool |-> pool,
                 inuse |-> inuse, msg |-> ZeroMessage, sender |-> filter_sender]
    IN
    IF q.count = 0 \/ q.head = NULL THEN none
    ELSE LET e == IF filter_sender # NullPtr /\ filter_sender[1] # IPC_PID_ANY
                  THEN FindSender(pool, q.head, filter_sender[1], ENTRY_POOL_SIZE)
                  ELSE q.head
         IN
         IF e = NULL THEN none
         ELSE LET ent == pool[e]
                  p1 == IF ent.prev # NULL
                        THEN [pool EXCEPT ![ent.prev].next = ent.next]
                        ELSE pool
                  p2 == IF ent.next # NULL
                        THEN [p1 EXCEPT ![ent.next].prev = ent.prev]
                        ELSE p1
              IN [res |-> "IPC_SUCCESS",
                  q |-> [q EXCEPT !.head = IF ent.prev # NULL THEN q.head ELSE ent.next,
                                  !.tail = IF ent.next # NULL THEN q.tail ELSE ent.prev,
                                  !.count = q.count - 1],
                  pool |-> p2,
                  inuse |-> queue_free_entry(inuse, e),
                  msg |-> ent.message,
                  sender |-> IF filter_sender = NullPtr THEN NullPtr
                             ELSE Ptr(ent.message.sender_id)]

\* The loops of ipc_process_cleanup, ipc_port_destroy and ipc_channel_destroy:
\* while (queue->head) { entry = head; head = entry->next; free(entry) }.
RECURSIVE DrainFrom(_, _, _, _)
DrainFrom(pool, inuse, e, fuel) ==
    IF e = NULL \/ fuel = 0 THEN inuse
    ELSE DrainFrom(pool, queue_free_entry(inuse, e), pool[e].next, fuel - 1)

(***************************************************************************)
(* Strings: a C string is the sequence of its bytes before the NUL.        *)
(***************************************************************************)
Min(a, b) == IF a < b THEN a ELSE b

\* str_copy(dest, src, max): at most max - 1 bytes, then the NUL.
str_copy(src, max) == SubSeq(src, 1, Min(Len(src), max - 1))

\* str_equal: byte by byte up to the first NUL of either.
str_equal(a, b) == a = b

(***************************************************************************)
(* Lookup helpers: the slot found, or NULL.                                *)
(***************************************************************************)
FirstSlot(S) == IF S = {} THEN NULL ELSE CHOOSE i \in S : \A j \in S : i <= j

find_port_by_id(ps, port_id) ==
    FirstSlot({i \in PortSlots : ps[i].port_id = port_id /\ ps[i].state # IPC_PORT_CLOSED})

find_port_by_name(ps, name) ==
    FirstSlot({i \in PortSlots : ps[i].state # IPC_PORT_CLOSED /\ str_equal(ps[i].name, name)})

find_region(rs, region_id) ==
    FirstSlot({i \in RegionSlots : rs[i].region_id = region_id /\ rs[i].is_active})

find_channel(cs, channel_id) ==
    FirstSlot({i \in ChannelSlots : cs[i].channel_id = channel_id /\ cs[i].is_active})

(***************************************************************************)
(* Initial state of the IPC subsystem: static storage as ipc_init leaves   *)
(* it, with the kernel's queue opened by ipc_process_init(IPC_PID_KERNEL). *)
(***************************************************************************)
ZeroPort ==
    [port_id |-> 0, owner_id |-> 0, name |-> <<>>, state |-> IPC_PORT_CLOSED,
     queue |-> ZeroQueue]

ZeroChannel ==
    [channel_id |-> 0, endpoint_a |-> 0, endpoint_b |-> 0, is_active |-> FALSE,
     queue_a_to_b |-> ZeroQueue, queue_b_to_a |-> ZeroQueue]

ZeroRegion ==
    [region_id |-> 0, owner_id |-> 0, permissions |-> 0, ref_count |-> 0,
     is_active |-> FALSE]

ZeroGrant ==
    [region_id |-> 0, grantee_id |-> 0, permissions |-> 0, mapped |-> FALSE,
     is_active |-> FALSE]

\* ipc_init, followed by ipc_process_init for the pids in opened.
ipc_init_then_open(opened) ==
    /\ process_queues =
         [p \in Pids |-> IF p \in opened THEN FreshQueue(IPC_PORT_OPEN)
                         ELSE FreshQueue(IPC_PORT_CLOSED)]
    /\ queue_initialized = [p \in Pids |-> p \in opened]
    /\ ports = [i \in PortSlots |-> ZeroPort]
    /\ next_port_id = 1
    /\ channels = [i \in ChannelSlots |-> ZeroChannel]
    /\ next_channel_id = 1
    /\ entry_in_use = [i \in PoolIdx |-> FALSE]
    /\ total_dropped = 0
    /\ shared_regions = [i \in RegionSlots |-> ZeroRegion]
    /\ region_grants = [i \in RegionSlots |-> [j \in GrantSlots |-> ZeroGrant]]
    /\ next_region_id = 1

ipc_init == ipc_init_then_open({IPC_PID_KERNEL})

(***************************************************************************)
(* Shared regions.                                                         *)
(***************************************************************************)
BitAnd(a, b) ==
    LET bit(x, k) == (x \div k) % 2
    IN bit(a, 1) * bit(b, 1) + 2 * bit(a, 2) * bit(b, 2) + 4 * bit(a, 4) * bit(b, 4)

\* The effect of ipc_share_destroy on slot s once the lookup and the
\* ownership check have passed.
share_destroy_slot(rs, gs, s) ==
    [regions |-> [rs EXCEPT ![s].is_active = FALSE, ![s].region_id = 0],
     grants |-> [gs EXCEPT ![s] = [j \in GrantSlots |-> [gs[s][j] EXCEPT !.is_active = FALSE]]]]

\* The first grant slot the loop of ipc_share_grant stops at: "free" with the
\* slot, "dup" when an active slot before any free one names the grantee,
\* "full" when the loop runs off the end.
RECURSIVE GrantScan(_, _, _)
GrantScan(g, grantee, j) ==
    IF j > MAX_GRANTS_PER_REGION THEN [kind |-> "full", slot |-> NULL]
    ELSE IF ~g[j].is_active THEN [kind |-> "free", slot |-> j]
    ELSE IF g[j].grantee_id = grantee THEN [kind |-> "dup", slot |-> j]
    ELSE GrantScan(g, grantee, j + 1)

IpcShareCreate ==
    /\ LET s == FirstSlot({i \in RegionSlots : ~shared_regions[i].is_active}) IN
       IF s = NULL
       THEN /\ UNCHANGED shareVars
            /\ last' = Call("share_create", get_current_pid, 0, 0, "IPC_ERROR_OUT_OF_MEMORY",
                            ZeroMessage, NullPtr, ZeroMessage)
       ELSE /\ shared_regions' =
                [shared_regions EXCEPT ![s] =
                    [region_id |-> next_region_id,
                     owner_id |-> get_current_pid,
                     permissions |-> IPC_SHARE_READ + IPC_SHARE_WRITE,
                     ref_count |-> 1, is_active |-> TRUE]]
            /\ region_grants' =
                [region_grants EXCEPT ![s] =
                    [j \in GrantSlots |-> [region_grants[s][j] EXCEPT !.is_active = FALSE]]]
            /\ next_region_id' = next_region_id + 1
            /\ last' = Call("share_create", get_current_pid, next_region_id, 0, "IPC_SUCCESS",
                            ZeroMessage, NullPtr, ZeroMessage)
    /\ UNCHANGED ipcVars

IpcShareDestroy(region_id) ==
    /\ LET s == find_region(shared_regions, region_id) IN
       IF s = NULL
       THEN /\ UNCHANGED shareVars
            /\ last' = Call("share_destroy", get_current_pid, region_id, 0, "IPC_ERROR_NOT_FOUND",
                            ZeroMessage, NullPtr, ZeroMessage)
       ELSE IF shared_regions[s].owner_id # get_current_pid
               /\ get_current_pid # IPC_PID_KERNEL
       THEN /\ UNCHANGED shareVars
            /\ last' = Call("share_destroy", get_current_pid, region_id, 0,
                            "IPC_ERROR_PERMISSION_DENIED", ZeroMessage, NullPtr, ZeroMessage)
       ELSE LET d == share_destroy_slot(shared_regions, region_grants, s) IN
            /\ shared_regions' = d.regions
            /\ region_grants' = d.grants
            /\ UNCHANGED next_region_id
            /\ last' = Call("share_destroy", get_current_pid, region_id, 0, "IPC_SUCCESS",
                            ZeroMessage, NullPtr, ZeroMessage)
    /\ UNCHANGED ipcVars

\* ref_count++ of ipc_share_grant
grant_ref(n) == U32Inc(n)

\* ref_count-- of ipc_share_revoke
\* A revoke that forgets to give the reference back.
revoke_ref_kept(n) == n

revoke_ref(n) == U32Dec(n)

IpcShareGrant(region_id, grantee_id, permissions) ==
    /\ LET s == find_region(shared_regions, region_id) IN
       IF s = NULL
       THEN /\ UNCHANGED shareVars
            /\ last' = Call("share_grant", get_current_pid, region_id, grantee_id,
                            "IPC_ERROR_NOT_FOUND", ZeroMessage, NullPtr, ZeroMessage)
       ELSE IF shared_regions[s].owner_id # get_current_pid
       THEN /\ UNCHANGED shareVars
            /\ last' = Call("share_grant", get_current_pid, region_id, grantee_id,
                            "IPC_ERROR_PERMISSION_DENIED", ZeroMessage, NullPtr, ZeroMessage)
       ELSE LET g == GrantScan(region_grants[s], grantee_id, 1) IN
            IF g.kind = "dup"
            THEN /\ UNCHANGED shareVars
                 /\ last' = Call("share_grant", get_current_pid, region_id, grantee_id,
                                 "IPC_ERROR_ALREADY_EXISTS", ZeroMessage, NullPtr, ZeroMessage)
            ELSE IF g.kind = "full"
            THEN /\ UNCHANGED shareVars
                 /\ last' = Call("share_grant", get_current_pid, region_id, grantee_id,
                                 "IPC_ERROR_OUT_OF_MEMORY", ZeroMessage, NullPtr, ZeroMessage)
            ELSE /\ region_grants' =
                     [region_grants EXCEPT ![s][g.slot] =
                         [region_id |-> region_id, grantee_id |-> grantee_id,
                          permissions |-> BitAnd(permissions, shared_regions[s].permissions),
                          mapped |-> FALSE, is_active |-> TRUE]]
                 /\ shared_regions' =
                     [shared_regions EXCEPT ![s].ref_count = grant_ref(@)]
                 /\ UNCHANGED next_region_id
                 /\ last' = Call("share_grant", get_current_pid, region_id, grantee_id,
                                 "IPC_SUCCESS", ZeroMessage, NullPtr, ZeroMessage)
    /\ UNCHANGED ipcVars

IpcShareRevoke(region_id, grantee_id) ==
    /\ LET s == find_region(shared_regions, region_id) IN
       IF s = NULL
       THEN /\ UNCHANGED shareVars
            /\ last' = Call("share_revoke", get_current_pid, region_id, grantee_id,
                            "IPC_ERROR_NOT_FOUND", ZeroMessage, NullPtr, ZeroMessage)
       ELSE IF shared_regions[s].owner_id # get_current_pid
               /\ get_current_pid # IPC_PID_KERNEL
       THEN /\ UNCHANGED shareVars
            /\ last' = Call("share_revoke", get_current_pid, region_id, grantee_id,
                            "IPC_ERROR_PERMISSION_DENIED", ZeroMessage, NullPtr, ZeroMessage)
       ELSE LET j == FirstSlot({k \in GrantSlots :
                                    region_grants[s][k].is_active
                                    /\ region_grants[s][k].grantee_id = grantee_id})
            IN
            IF j = NULL
            THEN /\ UNCHANGED shareVars
                 /\ last' = Call("share_revoke", get_current_pid, region_id, grantee_id,
                                 "IPC_ERROR_NOT_FOUND", ZeroMessage, NullPtr, ZeroMessage)
            ELSE /\ region_grants' = [region_grants EXCEPT ![s][j].is_active = FALSE]
                 /\ shared_regions' =
                     [shared_regions EXCEPT ![s].ref_count = revoke_ref(@)]
                 /\ UNCHANGED next_region_id
                 /\ last' = Call("share_revoke", get_current_pid, region_id, grantee_id,
                                 "IPC_SUCCESS", ZeroMessage, NullPtr, ZeroMessage)
    /\ UNCHANGED ipcVars

IpcShareMap(region_id) ==
    /\ LET s == find_region(shared_regions, region_id)
           pid == get_current_pid
       IN
       IF s = NULL
       THEN /\ UNCHANGED shareVars
            /\ last' = Call("share_map", get_current_pid, region_id, 0, "IPC_ERROR_NOT_FOUND",
                            ZeroMessage, NullPtr, ZeroMessage)
       ELSE IF shared_regions[s].owner_id = pid
       THEN /\ UNCHANGED shareVars
            /\ last' = Call("share_map", get_current_pid, region_id, 0, "IPC_SUCCESS",
                            ZeroMessage, NullPtr, ZeroMessage)
       ELSE LET j == FirstSlot({k \in GrantSlots :
                                    region_grants[s][k].is_active
                                    /\ region_grants[s][k].grantee_id = pid})
            IN
            IF j = NULL
            THEN /\ UNCHANGED shareVars
                 /\ last' = Call("share_map", get_current_pid, region_id, 0,
                                 "IPC_ERROR_PERMISSION_DENIED", ZeroMessage, NullPtr, ZeroMessage)
            ELSE /\ region_grants' = [region_grants EXCEPT ![s][j].mapped = TRUE]
                 /\ UNCHANGED <<shared_regions, next_region_id>>
                 /\ last' = Call("share_map", get_current_pid, region_id, 0, "IPC_SUCCESS",
                                 ZeroMessage, NullPtr, ZeroMessage)
    /\ UNCHANGED ipcVars

IpcShareUnmap(region_id) ==
    /\ LET s == find_region(shared_regions, region_id)
           pid == get_current_pid
       IN
       IF s = NULL
       THEN /\ UNCHANGED shareVars
            /\ last' = Call("share_unmap", get_current_pid, region_id, 0, "IPC_ERROR_NOT_FOUND",
                            ZeroMessage, NullPtr, ZeroMessage)
       ELSE IF shared_regions[s].owner_id = pid
       THEN /\ UNCHANGED shareVars
            /\ last' = Call("share_unmap", get_current_pid, region_id, 0, "IPC_SUCCESS",
                            ZeroMessage, NullPtr, ZeroMessage)
       ELSE LET j == FirstSlot({k \in GrantSlots :
                                    region_grants[s][k].is_active
                                    /\ region_grants[s][k].grantee_id = pid})
            IN
            IF j = NULL
            THEN /\ UNCHANGED shareVars
                 /\ last' = Call("share_unmap", get_current_pid, region_id, 0,
                                 "IPC_ERROR_PERMISSION_DENIED", ZeroMessage, NullPtr, ZeroMessage)
            ELSE /\ region_grants' = [region_grants EXCEPT ![s][j].mapped = FALSE]
                 /\ UNCHANGED <<shared_regions, next_region_id>>
                 /\ last' = Call("share_unmap", get_current_pid, region_id, 0, "IPC_SUCCESS",
                                 ZeroMessage, NullPtr, ZeroMessage)
    /\ UNCHANGED ipcVars

(***************************************************************************)
(* Per-process queues.                                                     *)
(***************************************************************************)
Ret(op, caller, target, res) ==
    Call(op, caller, target, 0, res, ZeroMessage, NullPtr, ZeroMessage)

\* The effect of ipc_port_destroy on slot i once the lookup and the ownership
\* check have passed: the entries are freed and head ends NULL; tail and
\* count are not written.
port_destroy_slot(ps, pool, inuse, i) ==
    [ports |-> [ps EXCEPT ![i].state = IPC_PORT_CLOSED,
                          ![i].port_id = 0,
                          ![i].name = <<>>,
                          ![i].queue.head = NULL],
     inuse |-> DrainFrom(pool, inuse, ps[i].queue.head, ENTRY_POOL_SIZE)]

\* Loop "cleanup owned ports" of ipc_process_cleanup, from slot i on.
RECURSIVE CleanupPorts(_, _, _, _, _)
CleanupPorts(ps, pool, inuse, pid, i) ==
    IF i > MAX_PORTS THEN [ports |-> ps, inuse |-> inuse]
    ELSE IF ps[i].owner_id = pid /\ ps[i].state # IPC_PORT_CLOSED
    THEN LET s == find_port_by_id(ps, ps[i].port_id)
             d == IF s = NULL THEN [ports |-> ps, inuse |-> inuse]
                  ELSE port_destroy_slot(ps, pool, inuse, s)
         IN CleanupPorts(d.ports, pool, d.inuse, pid, i + 1)
    ELSE CleanupPorts(ps, pool, inuse, pid, i + 1)

\* Loop "cleanup owned shared regions" of ipc_process_cleanup, from slot i on.
RECURSIVE CleanupRegions(_, _, _, _)
CleanupRegions(rs, gs, pid, i) ==
    IF i > MAX_SHARED_REGIONS THEN [regions |-> rs, grants |-> gs]
    ELSE IF rs[i].owner_id = pid /\ rs[i].is_active
    THEN LET s == find_region(rs, rs[i].region_id)
             d == IF s = NULL THEN [regions |-> rs, grants |-> gs]
                  ELSE share_destroy_slot(rs, gs, s)
         IN CleanupRegions(d.regions, d.grants, pid, i + 1)
    ELSE CleanupRegions(rs, gs, pid, i + 1)

\* The state change of ipc_process_init(pid), for pid < MAX_PROCESSES.
ipc_process_init(pid) ==
    IF queue_initialized[pid]
    THEN UNCHANGED <<ipcVars, shareVars>>
    ELSE /\ process_queues' = [process_queues EXCEPT ![pid] = FreshQueue(IPC_PORT_OPEN)]
         /\ queue_initialized' = [queue_initialized EXCEPT ![pid] = TRUE]
         /\ UNCHANGED <<ports, next_port_id, channels, next_channel_id, next_message_id,
                        entry_pool, entry_in_use, total_dropped, shareVars>>

\* The state change of ipc_process_cleanup(pid), for pid < MAX_PROCESSES.
ipc_process_cleanup(pid) ==
    IF ~queue_initialized[pid]
    THEN UNCHANGED <<ipcVars, shareVars>>
    ELSE LET q == process_queues[pid]
             inuse1 == DrainFrom(entry_pool, entry_in_use, q.head, ENTRY_POOL_SIZE)
             pc == CleanupPorts(ports, entry_pool, inuse1, pid, 1)
             rc == CleanupRegions(shared_regions, region_grants, pid, 1)
         IN
         /\ process_queues' =
               [process_queues EXCEPT ![pid] =
                   [q EXCEPT !.head = NULL, !.tail = NULL, !.count = 0,
                             !.state = IPC_PORT_CLOSED]]
         /\ queue_initialized' = [queue_initialized EXCEPT ![pid] = FALSE]
         /\ ports' = pc.ports
         /\ entry_in_use' = pc.inuse
         /\ shared_regions' = rc.regions
         /\ region_grants' = rc.grants
         /\ UNCHANGED <<next_port_id, channels, next_channel_id, next_message_id,
                        entry_pool, total_dropped, next_region_id>>

IpcProcessInit(pid) ==
    /\ ipc_process_init(pid)
    /\ last' = Ret("process_init", pid, pid, "IPC_SUCCESS")

IpcProcessCleanup(pid) ==
    /\ ipc_process_cleanup(pid)
    /\ last' = Ret("process_cleanup", pid, pid, "IPC_SUCCESS")

(***************************************************************************)
(* Message passing.  The id counter is a uint32_t.                         *)
(***************************************************************************)
next_id(n) == U32Inc(n)

\* The message ipc_send, ipc_port_send and ipc_channel_send enqueue.
stamp(msg, sender, receiver) ==
    [msg EXCEPT !.sender_id = sender, !.receiver_id = receiver,
                !.message_id = next_message_id]

IpcSend(caller, receiver_id, msg) ==
    /\ IF receiver_id >= MAX_PROCESSES
       THEN /\ UNCHANGED ipcVars
            /\ last' = Call("send", caller, receiver_id, 0, "IPC_ERROR_INVALID_RECEIVER",
                            ZeroMessage, NullPtr, msg)
       ELSE IF ~queue_initialized[receiver_id]
       THEN /\ UNCHANGED ipcVars
            /\ last' = Call("send", caller, receiver_id, 0, "IPC_ERROR_INVALID_RECEIVER",
                            ZeroMessage, NullPtr, msg)
       ELSE IF msg.length > IPC_MAX_MESSAGE_SIZE
       THEN /\ UNCHANGED ipcVars
            /\ last' = Call("send", caller, receiver_id, 0, "IPC_ERROR_MESSAGE_TOO_LARGE",
                            ZeroMessage, NullPtr, msg)
       ELSE LET m == stamp(msg, get_current_pid, receiver_id)
                r == queue_enqueue(process_queues[receiver_id], entry_pool,
                                   entry_in_use, total_dropped, m)
            IN
            /\ next_message_id' = next_id(next_message_id)
            /\ process_queues' = [process_queues EXCEPT ![receiver_id] = r.q]
            /\ entry_pool' = r.pool
            /\ entry_in_use' = r.inuse
            /\ total_dropped' = r.drops
            /\ UNCHANGED <<queue_initialized, ports, next_port_id, channels,
                           next_channel_id>>
            /\ last' = Call("send", caller, receiver_id, 0, r.res, m, NullPtr, msg)
    /\ UNCHANGED shareVars

IpcReceive(caller, filter) ==
    /\ LET pid == get_current_pid IN
       IF pid >= MAX_PROCESSES \/ ~queue_initialized[pid]
       THEN /\ UNCHANGED ipcVars
            /\ last' = RecvCall("receive", caller, 0, filter, "IPC_ERROR_INVALID_RECEIVER",
                                ZeroMessage, filter)
       ELSE LET r == queue_dequeue(process_queues[pid], entry_pool, entry_in_use, filter)
            IN
            /\ process_queues' = [process_queues EXCEPT ![pid] = r.q]
            /\ entry_pool' = r.pool
            /\ entry_in_use' = r.inuse
            /\ UNCHANGED <<queue_initialized, ports, next_port_id, channels,
                           next_channel_id, next_message_id, total_dropped>>
            /\ last' = RecvCall("receive", caller, 0, filter, r.res, r.msg, r.sender)
    /\ UNCHANGED shareVars

(***************************************************************************)
(* Ports.                                                                  *)
(***************************************************************************)
IpcPortCreate(name) ==
    /\ IF find_port_by_name(ports, name) # NULL
       THEN /\ UNCHANGED ipcVars
            /\ last' = Ret("port_create", get_current_pid, 0, "IPC_ERROR_ALREADY_EXISTS")
       ELSE LET s == FirstSlot({i \in PortSlots : ports[i].state = IPC_PORT_CLOSED}) IN
            IF s = NULL
            THEN /\ UNCHANGED ipcVars
                 /\ last' = Ret("port_create", get_current_pid, 0, "IPC_ERROR_OUT_OF_MEMORY")
            ELSE /\ ports' =
                     [ports EXCEPT ![s] =
                         [port_id |-> next_port_id,
                          owner_id |-> get_current_pid,
                          name |-> str_copy(name, PORT_NAME_SIZE),
                          state |-> IPC_PORT_LISTENING,
                          queue |-> FreshQueue(IPC_PORT_OPEN)]]
                 /\ next_port_id' = next_port_id + 1
                 /\ UNCHANGED <<process_queues, queue_initialized, channels,
                                next_channel_id, next_message_id, entry_pool,
                                entry_in_use, total_dropped>>
                 /\ last' = Ret("port_create", get_current_pid, next_port_id, "IPC_SUCCESS")
    /\ UNCHANGED shareVars

IpcPortDestroy(port_id) ==
    /\ LET s == find_port_by_id(ports, port_id) IN
       IF s = NULL
       THEN /\ UNCHANGED ipcVars
            /\ last' = Ret("port_destroy", get_current_pid, port_id, "IPC_ERROR_INVALID_PORT")
       ELSE IF ports[s].owner_id # get_current_pid
               /\ get_current_pid # IPC_PID_KERNEL
       THEN /\ UNCHANGED ipcVars
            /\ last' = Ret("port_destroy", get_current_pid, port_id, "IPC_ERROR_PERMISSION_DENIED")
       ELSE LET d == port_destroy_slot(ports, entry_pool, entry_in_use, s) IN
            /\ ports' = d.ports
            /\ entry_in_use' = d.inuse
            /\ UNCHANGED <<process_queues, queue_initialized, next_port_id, channels,
                           next_channel_id, next_message_id, entry_pool, total_dropped>>
            /\ last' = Ret("port_destroy", get_current_pid, port_id, "IPC_SUCCESS")
    /\ UNCHANGED shareVars

IpcPortSend(port_id, msg) ==
    /\ LET s == find_port_by_id(ports, port_id) IN
       IF s = NULL
       THEN /\ UNCHANGED ipcVars
            /\ last' = Call("port_send", get_current_pid, port_id, 0, "IPC_ERROR_INVALID_PORT",
                            ZeroMessage, NullPtr, msg)
       ELSE IF ports[s].state # IPC_PORT_LISTENING
       THEN /\ UNCHANGED ipcVars
            /\ last' = Call("port_send", get_current_pid, port_id, 0, "IPC_ERROR_PORT_CLOSED",
                            ZeroMessage, NullPtr, msg)
       ELSE LET m == stamp(msg, get_current_pid, ports[s].owner_id)
                r == queue_enqueue(ports[s].queue, entry_pool, entry_in_use,
                                   total_dropped, m)
            IN
            /\ next_message_id' = next_id(next_message_id)
            /\ ports' = [ports EXCEPT ![s].queue = r.q]
            /\ entry_pool' = r.pool
            /\ entry_in_use' = r.inuse
            /\ total_dropped' = r.drops
            /\ UNCHANGED <<process_queues, queue_initialized, next_port_id, channels,
                           next_channel_id>>
            /\ last' = Call("port_send", get_current_pid, port_id, 0, r.res, m, NullPtr, msg)
    /\ UNCHANGED shareVars

IpcPortReceive(port_id) ==
    /\ LET s == find_port_by_id(ports, port_id) IN
       IF s = NULL
       THEN /\ UNCHANGED ipcVars
            /\ last' = Ret("port_receive", get_current_pid, port_id, "IPC_ERROR_INVALID_PORT")
       ELSE IF ports[s].owner_id # get_current_pid
       THEN /\ UNCHANGED ipcVars
            /\ last' = Ret("port_receive", get_current_pid, port_id, "IPC_ERROR_PERMISSION_DENIED")
       ELSE LET r == queue_dequeue(ports[s].queue, entry_pool, entry_in_use,
                                   Ptr(IPC_PID_ANY))
            IN
            /\ ports' = [ports EXCEPT ![s].queue = r.q]
            /\ entry_pool' = r.pool
            /\ entry_in_use' = r.inuse
            /\ UNCHANGED <<process_queues, queue_initialized, next_port_id, channels,
                           next_channel_id, next_message_id, total_dropped>>
            /\ last' = RecvCall("port_receive", get_current_pid, port_id, Ptr(IPC_PID_ANY), r.res,
                                r.msg, r.sender)
    /\ UNCHANGED shareVars

(***************************************************************************)
(* Channels.                                                               *)
(***************************************************************************)
IpcChannelCreate(endpoint_a, endpoint_b) ==
    /\ IF endpoint_a >= MAX_PROCESSES \/ endpoint_b >= MAX_PROCESSES
       THEN /\ UNCHANGED ipcVars
            /\ last' = Ret("channel_create", get_current_pid, 0, "IPC_ERROR_INVALID_ARG")
       ELSE LET s == FirstSlot({i \in ChannelSlots : ~channels[i].is_active}) IN
            IF s = NULL
            THEN /\ UNCHANGED ipcVars
                 /\ last' = Ret("channel_create", get_current_pid, 0, "IPC_ERROR_OUT_OF_MEMORY")
            ELSE /\ channels' =
                     [channels EXCEPT ![s] =
                         [channel_id |-> next_channel_id,
                          endpoint_a |-> endpoint_a,
                          endpoint_b |-> endpoint_b,
                          is_active |-> TRUE,
                          queue_a_to_b |-> FreshQueue(IPC_PORT_OPEN),
                          queue_b_to_a |-> FreshQueue(IPC_PORT_OPEN)]]
                 /\ next_channel_id' = next_channel_id + 1
                 /\ UNCHANGED <<process_queues, queue_initialized, ports, next_port_id,
                                next_message_id, entry_pool, entry_in_use, total_dropped>>
                 /\ last' = Ret("channel_create", get_current_pid, next_channel_id, "IPC_SUCCESS")
    /\ UNCHANGED shareVars

IpcChannelDestroy(channel_id) ==
    /\ LET s == find_channel(channels, channel_id) IN
       IF s = NULL
       THEN /\ UNCHANGED ipcVars
            /\ last' = Ret("channel_destroy", get_current_pid, channel_id, "IPC_ERROR_NOT_FOUND")
       ELSE LET u1 == DrainFrom(entry_pool, entry_in_use, channels[s].queue_a_to_b.head,
                                ENTRY_POOL_SIZE)
                u2 == DrainFrom(entry_pool, u1, channels[s].queue_b_to_a.head,
                                ENTRY_POOL_SIZE)
            IN
            /\ channels' = [channels EXCEPT ![s].queue_a_to_b.head = NULL,
                                            ![s].queue_b_to_a.head = NULL,
                                            ![s].is_active = FALSE,
                                            ![s].channel_id = 0]
            /\ entry_in_use' = u2
            /\ UNCHANGED <<process_queues, queue_initialized, ports, next_port_id,
                           next_channel_id, next_message_id, entry_pool, total_dropped>>
            /\ last' = Ret("channel_destroy", get_current_pid, channel_id, "IPC_SUCCESS")
    /\ UNCHANGED shareVars

IpcChannelSend(caller, channel_id, msg) ==
    /\ LET s == find_channel(channels, channel_id)
           pid == get_current_pid
       IN
       IF s = NULL
       THEN /\ UNCHANGED ipcVars
            /\ last' = Call("channel_send", caller, channel_id, 0, "IPC_ERROR_NOT_FOUND",
                            ZeroMessage, NullPtr, msg)
       ELSE IF pid # channels[s].endpoint_a /\ pid # channels[s].endpoint_b
       THEN /\ UNCHANGED ipcVars
            /\ last' = Call("channel_send", caller, channel_id, 0,
                            "IPC_ERROR_PERMISSION_DENIED", ZeroMessage, NullPtr, msg)
       ELSE LET atob == pid = channels[s].endpoint_a
                m == stamp(msg, pid, IF atob THEN channels[s].endpoint_b
                                     ELSE channels[s].endpoint_a)
                r == queue_enqueue(IF atob THEN channels[s].queue_a_to_b
                                   ELSE channels[s].queue_b_to_a,
                                   entry_pool, entry_in_use, total_dropped, m)
            IN
            /\ next_message_id' = next_id(next_message_id)
            /\ channels' = IF atob THEN [channels EXCEPT ![s].queue_a_to_b = r.q]
                           ELSE [channels EXCEPT ![s].queue_b_to_a = r.q]
            /\ entry_pool' = r.pool
            /\ entry_in_use' = r.inuse
            /\ total_dropped' = r.drops
            /\ UNCHANGED <<process_queues, queue_initialized, ports, next_port_id,
                           next_channel_id>>
            /\ last' = Call("channel_send", caller, channel_id, 0, r.res, m, NullPtr, msg)
    /\ UNCHANGED shareVars

IpcChannelReceive(caller, channel_id) ==
    /\ LET s == find_channel(channels, channel_id)
           pid == get_current_pid
       IN
       IF s = NULL
       THEN /\ UNCHANGED ipcVars
            /\ last' = Ret("channel_receive", caller, channel_id, "IPC_ERROR_NOT_FOUND")
       ELSE IF pid # channels[s].endpoint_a /\ pid # channels[s].endpoint_b
       THEN /\ UNCHANGED ipcVars
            /\ last' = Ret("channel_receive", caller, channel_id,
                           "IPC_ERROR_PERMISSION_DENIED")
       ELSE LET frombtoa == pid = channels[s].endpoint_a
                r == queue_dequeue(IF frombtoa THEN channels[s].queue_b_to_a
                                   ELSE channels[s].queue_a_to_b,
                                   entry_pool, entry_in_use, Ptr(IPC_PID_ANY))
            IN
            /\ channels' = IF frombtoa THEN [channels EXCEPT ![s].queue_b_to_a = r.q]
                           ELSE [channels EXCEPT ![s].queue_a_to_b = r.q]
            /\ entry_pool' = r.pool
            /\ entry_in_use' = r.inuse
            /\ UNCHANGED <<process_queues, queue_initialized, ports, next_port_id,
                           next_channel_id, next_message_id, total_dropped>>
            /\ last' = RecvCall("channel_receive", caller, channel_id, Ptr(IPC_PID_ANY),
                                r.res, r.msg, r.sender)
    /\ UNCHANGED shareVars

(***************************************************************************)
(* The process table (process.c).  A process_t* is Ptr(pid), the address of *)
(* process_table[pid], or NullPtr.                                         *)
(***************************************************************************)
ProcessStates ==
    {"PROCESS_STATE_UNUSED", "PROCESS_STATE_CREATED", "PROCESS_STATE_READY",
     "PROCESS_STATE_RUNNING", "PROCESS_STATE_BLOCKED", "PROCESS_STATE_TERMINATED",
     "PROCESS_STATE_ZOMBIE"}

Priorities == PRIORITY_IDLE .. PRIORITY_KERNEL

\* A zero-filled process_t: the fields the process manager reads or writes.
ZeroPCB ==
    [pid |-> 0, parent_pid |-> 0, state |-> "PROCESS_STATE_UNUSED", priority |-> 0,
     next |-> NullPtr, prev |-> NullPtr, children |-> <<>>, has_exited |-> FALSE,
     exit_code |-> 0, magic |-> 0]

ZeroStatistics ==
    [total_processes |-> 0, active_processes |-> 0, zombie_processes |-> 0,
     context_switches |-> 0]

\* The static initialisers of process.c.
ProcessStatic ==
    /\ process_table = [p \in Pids |-> ZeroPCB]
    /\ process_table_initialized = FALSE
    /\ current_process = NullPtr
    /\ current_pid = KERNEL_PROCESS_ID
    /\ ready_queue = [k \in Priorities |-> NullPtr]
    /\ process_statistics = ZeroStatistics

\* find_free_pid: the first unused slot, or MAX_PROCESSES.
find_free_pid(t) ==
    IF \E p \in Pids : t[p].state = "PROCESS_STATE_UNUSED"
    THEN CHOOSE p \in Pids : /\ t[p].state = "PROCESS_STATE_UNUSED"
                             /\ \A o \in Pids : o < p => t[o].state # "PROCESS_STATE_UNUSED"
    ELSE MAX_PROCESSES

process_is_valid(t, pid) ==
    /\ pid < MAX_PROCESSES
    /\ t[pid].magic = PROCESS_MAGIC
    /\ t[pid].state # "PROCESS_STATE_UNUSED"

\* validate_process_params; params = [name, priority, parent_pid, stack_size].
validate_process_params(t, params) ==
    IF Len(params.name) = 0 THEN "STATUS_INVALID_ARG"
    ELSE IF Len(params.name) >= PROCESS_NAME_MAX_LEN THEN "STATUS_INVALID_ARG"
    ELSE IF params.priority > PRIORITY_KERNEL THEN "STATUS_INVALID_ARG"
    ELSE IF params.stack_size = 0 THEN "STATUS_INVALID_ARG"
    ELSE IF params.parent_pid # KERNEL_PROCESS_ID /\ ~process_is_valid(t, params.parent_pid)
    THEN "PROCESS_ERROR_INVALID_PARENT"
    ELSE "STATUS_SUCCESS"

init_process_pcb(params, pid) ==
    [ZeroPCB EXCEPT !.pid = pid, !.parent_pid = params.parent_pid,
                    !.state = "PROCESS_STATE_CREATED", !.priority = params.priority,
                    !.magic = PROCESS_MAGIC]

\* add_to_ready_queue: the PCB becomes the head of the list of its priority.
add_to_ready_queue(t, rq, p) ==
    IF t[p].priority > PRIORITY_KERNEL THEN [table |-> t, rq |-> rq]
    ELSE LET head == rq[t[p].priority]
             t1 == [t EXCEPT ![p].next = head, ![p].prev = NullPtr]
             t2 == IF head # NullPtr THEN [t1 EXCEPT ![head[1]].prev = Ptr(p)] ELSE t1
         IN [table |-> t2, rq |-> [rq EXCEPT ![t[p].priority] = Ptr(p)]]

\* The list of lowest priority whose head is p, or -1: the loop of
\* remove_from_ready_queue.
HeadedBy(rq, p) ==
    IF \E k \in Priorities : rq[k] = Ptr(p)
    THEN CHOOSE k \in Priorities : /\ rq[k] = Ptr(p)
                                   /\ \A j \in Priorities : j < k => rq[j] # Ptr(p)
    ELSE 0 - 1

remove_from_ready_queue(t, rq, p) ==
    LET nx == t[p].next
        pv == t[p].prev
        t1 == IF pv # NullPtr THEN [t EXCEPT ![pv[1]].next = nx] ELSE t
        k == HeadedBy(rq, p)
        rq1 == IF pv = NullPtr /\ k >= 0 THEN [rq EXCEPT ![k] = nx] ELSE rq
        t2 == IF nx # NullPtr THEN [t1 EXCEPT ![nx[1]].prev = pv] ELSE t1
    IN [table |-> [t2 EXCEPT ![p].next = NullPtr, ![p].prev = NullPtr], rq |-> rq1]

process_add_child(t, parent_pid, child_pid) ==
    IF ~process_is_valid(t, parent_pid) \/ ~process_is_valid(t, child_pid) THEN t
    ELSE IF Len(t[parent_pid].children) >= MAX_PROCESSES THEN t
    ELSE [t EXCEPT ![parent_pid].children = Append(@, child_pid)]

\* The children without the first occurrence of child_pid.
RECURSIVE WithoutFirst(_, _)
WithoutFirst(seq, x) ==
    IF seq = <<>> THEN <<>>
    ELSE IF Head(seq) = x THEN Tail(seq)
    ELSE <<Head(seq)>> \o WithoutFirst(Tail(seq), x)

process_remove_child(t, parent_pid, child_pid) ==
    IF ~process_is_valid(t, parent_pid) \/ ~process_is_valid(t, child_pid) THEN t
    ELSE [t EXCEPT ![parent_pid].children = WithoutFirst(@, child_pid)]

\* process_set_state on a valid pid.
process_set_state(t, rq, pid, new_state) ==
    LET r == IF t[pid].state = "PROCESS_STATE_READY"
             THEN remove_from_ready_queue(t, rq, pid)
             ELSE [table |-> t, rq |-> rq]
        t1 == [r.table EXCEPT ![pid].state = new_state]
    IN IF new_state = "PROCESS_STATE_READY"
       THEN add_to_ready_queue(t1, r.rq, pid)
       ELSE [table |-> t1, rq |-> r.rq]

\* What process_create writes into the table and the ready lists once the
\* parameters are accepted and slot pid is chosen.
process_create_pcb(t, rq, params, pid) ==
    LET t1 == [t EXCEPT ![pid] = init_process_pcb(params, pid)]
        t2 == IF params.parent_pid # KERNEL_PROCESS_ID
              THEN process_add_child(t1, params.parent_pid, pid)
              ELSE t1
    IN add_to_ready_queue([t2 EXCEPT ![pid].state = "PROCESS_STATE_READY"], rq, pid)

ProcessCreate(params) ==
    LET v == validate_process_params(process_table, params)
        pid == find_free_pid(process_table)
    IN
    IF ~process_table_initialized
    THEN /\ UNCHANGED <<procVars, ipcVars, shareVars>>
         /\ last' = Ret("process_create", current_pid, 0, "STATUS_ERROR")
    ELSE IF v # "STATUS_SUCCESS"
    THEN /\ UNCHANGED <<procVars, ipcVars, shareVars>>
         /\ last' = Ret("process_create", current_pid, 0, v)
    ELSE IF pid >= MAX_PROCESSES
    THEN /\ UNCHANGED <<procVars, ipcVars, shareVars>>
         /\ last' = Ret("process_create", current_pid, 0, "PROCESS_ERROR_TOO_MANY_PROCESSES")
    ELSE LET r == process_create_pcb(process_table, ready_queue, params, pid) IN
         /\ ipc_process_init(pid)
         /\ process_table' = r.table
         /\ ready_queue' = r.rq
         /\ process_statistics' =
               [process_statistics EXCEPT !.total_processes = U32Inc(@),
                                          !.active_processes = U32Inc(@)]
         /\ UNCHANGED <<process_table_initialized, current_process, current_pid>>
         /\ last' = Ret("process_create", current_pid, pid, "STATUS_SUCCESS")

ProcessDestroy(pid) ==
    IF ~process_table_initialized
    THEN /\ UNCHANGED <<procVars, ipcVars, shareVars>>
         /\ last' = Ret("process_destroy", current_pid, pid, "STATUS_ERROR")
    ELSE IF ~process_is_valid(process_table, pid)
    THEN /\ UNCHANGED <<procVars, ipcVars, shareVars>>
         /\ last' = Ret("process_destroy", current_pid, pid, "PROCESS_ERROR_INVALID_PID")
    ELSE IF Ptr(pid) = current_process
    THEN /\ UNCHANGED <<procVars, ipcVars, shareVars>>
         /\ last' = Ret("process_destroy", current_pid, pid, "PROCESS_ERROR_INVALID_STATE")
    ELSE LET r == remove_from_ready_queue(process_table, ready_queue, pid)
             parent == r.table[pid].parent_pid
             t1 == IF parent # KERNEL_PROCESS_ID
                   THEN process_remove_child(r.table, parent, pid)
                   ELSE r.table
         IN
         /\ ipc_process_cleanup(r.table[pid].pid)
         /\ process_table' = [t1 EXCEPT ![pid].state = "PROCESS_STATE_UNUSED",
                                        ![pid].magic = 0]
         /\ ready_queue' = r.rq
         /\ process_statistics' =
               IF t1[pid].state # "PROCESS_STATE_ZOMBIE"
               THEN [process_statistics EXCEPT !.active_processes = U32Dec(@)]
               ELSE process_statistics
         /\ UNCHANGED <<process_table_initialized, current_process, current_pid>>
         /\ last' = Ret("process_destroy", current_pid, pid, "STATUS_SUCCESS")

ProcessExit(pid, exit_code) ==
    /\ IF ~process_table_initialized
       THEN /\ UNCHANGED procVars
            /\ last' = Ret("process_exit", current_pid, pid, "STATUS_ERROR")
       ELSE IF ~process_is_valid(process_table, pid)
       THEN /\ UNCHANGED procVars
            /\ last' = Ret("process_exit", current_pid, pid, "PROCESS_ERROR_INVALID_PID")
       ELSE LET t0 == [process_table EXCEPT ![pid].exit_code = exit_code,
                                            ![pid].has_exited = TRUE]
                z == process_set_state(t0, ready_queue, pid, "PROCESS_STATE_ZOMBIE")
                r == remove_from_ready_queue(z.table, z.rq, pid)
            IN
            /\ process_table' = r.table
            /\ ready_queue' = r.rq
            /\ process_statistics' =
                  [process_statistics EXCEPT !.active_processes = U32Dec(@),
                                             !.zombie_processes = U32Inc(@)]
            /\ UNCHANGED <<process_table_initialized, current_process, current_pid>>
            /\ last' = Ret("process_exit", current_pid, pid, "STATUS_SUCCESS")
    /\ UNCHANGED <<ipcVars, shareVars>>

ProcessSetState(pid, new_state) ==
    /\ IF ~process_is_valid(process_table, pid)
       THEN /\ UNCHANGED procVars
            /\ last' = Ret("process_set_state", current_pid, pid, "PROCESS_ERROR_INVALID_PID")
       ELSE LET r == process_set_state(process_table, ready_queue, pid, new_state) IN
            /\ process_table' = r.table
            /\ ready_queue' = r.rq
            /\ UNCHANGED <<process_table_initialized, current_process, current_pid,
                           process_statistics>>
            /\ last' = Ret("process_set_state", current_pid, pid, "STATUS_SUCCESS")
    /\ UNCHANGED <<ipcVars, shareVars>>

\* process_get_next_ready: the head of the highest non-empty ready list, or
\* the address of slot 1, assumed to be the idle process.
process_get_next_ready(rq) ==
    IF \E k \in Priorities : rq[k] # NullPtr
    THEN rq[CHOOSE k \in Priorities :
                /\ rq[k] # NullPtr
                /\ \A j \in Priorities : j > k => rq[j] = NullPtr]
    ELSE Ptr(KERNEL_PROCESS_ID + 1)

\* process_switch_to, called as operation op.
process_switch_to(op, process) ==
    IF process = NullPtr
    THEN /\ UNCHANGED procVars
         /\ last' = Ret(op, current_pid, 0, "STATUS_INVALID_ARG")
    ELSE IF ~process_is_valid(process_table, process_table[process[1]].pid)
    THEN /\ UNCHANGED procVars
         /\ last' = Ret(op, current_pid, process[1], "PROCESS_ERROR_INVALID_PID")
    ELSE /\ current_process' = process
         /\ current_pid' = process_table[process[1]].pid
         /\ process_statistics' =
               [process_statistics EXCEPT !.context_switches = @ + 1]
         /\ UNCHANGED <<process_table, process_table_initialized, ready_queue>>
         /\ last' = Ret(op, current_pid, process[1], "STATUS_SUCCESS")

ProcessSwitchTo(process) ==
    /\ process_switch_to("process_switch_to", process)
    /\ UNCHANGED <<ipcVars, shareVars>>

ProcessScheduleNext ==
    /\ IF ~process_table_initialized
       THEN /\ UNCHANGED procVars
            /\ last' = Ret("process_schedule_next", current_pid, 0, "STATUS_ERROR")
       ELSE LET next == process_get_next_ready(ready_queue) IN
            IF next = current_process
            THEN /\ UNCHANGED procVars
                 /\ last' = Ret("process_schedule_next", current_pid, next[1],
                                "STATUS_SUCCESS")
            ELSE process_switch_to("process_schedule_next", next)
    /\ UNCHANGED <<ipcVars, shareVars>>

KernelParams ==
    [name |-> <<1>>, priority |-> PRIORITY_KERNEL, parent_pid |-> KERNEL_PROCESS_ID,
     stack_size |-> 1]

IdleParams ==
    [name |-> <<2>>, priority |-> PRIORITY_IDLE, parent_pid |-> KERNEL_PROCESS_ID,
     stack_size |-> 1]

InitProcTable ==
    LET t0 == [p \in Pids |-> ZeroPCB]
        rq0 == [k \in Priorities |-> NullPtr]
        k == process_create_pcb(t0, rq0, KernelParams, find_free_pid(t0))
        t1 == [k.table EXCEPT ![KERNEL_PROCESS_ID].state = "PROCESS_STATE_RUNNING"]
    IN process_create_pcb(t1, k.rq, IdleParams, find_free_pid(t1))

\* What process_create returns for params on table t, before it writes
\* anything.
process_create_status(initialized, t, params) ==
    IF ~initialized THEN "STATUS_ERROR"
    ELSE IF validate_process_params(t, params) # "STATUS_SUCCESS"
    THEN validate_process_params(t, params)
    ELSE IF find_free_pid(t) >= MAX_PROCESSES THEN "PROCESS_ERROR_TOO_MANY_PROCESSES"
    ELSE "STATUS_SUCCESS"

\* boot_panic halts the CPU with interrupts masked; nothing runs after it.
boot_panic == "boot_panic"

\* process_init.  The table, the ready lists and the statistics are cleared,
\* then the kernel and the idle process are created through process_create,
\* which looks at process_table_initialized; the flag is set at the end.
\* Both creations see the same flag and the same parameters as in
\* InitProcTable, so they succeed or fail together.
ProcessInit ==
    IF process_table_initialized
    THEN /\ UNCHANGED <<procVars, ipcVars, shareVars>>
         /\ last' = Ret("process_init", current_pid, 0, "STATUS_SUCCESS")
    ELSE LET t0 == [p \in Pids |-> ZeroPCB]
             kernel == process_create_status(process_table_initialized, t0, KernelParams)
             idle == process_create_status(process_table_initialized,
                                           InitProcTable.table, IdleParams)
             made == {KERNEL_PROCESS_ID, KERNEL_PROCESS_ID + 1}
         IN
         IF kernel # "STATUS_SUCCESS" \/ idle # "STATUS_SUCCESS"
         THEN /\ process_table' = t0
              /\ ready_queue' = [k \in Priorities |-> NullPtr]
              /\ process_statistics' = ZeroStatistics
              /\ UNCHANGED <<process_table_initialized, current_process, current_pid,
                             ipcVars, shareVars>>
              /\ last' = Ret("process_init", current_pid, 0, boot_panic)
         ELSE /\ process_table' = InitProcTable.table
              /\ ready_queue' = InitProcTable.rq
              /\ process_statistics' =
                    [ZeroStatistics EXCEPT !.total_processes = 2, !.active_processes = 2]
              /\ process_table_initialized' = TRUE
              /\ current_process' = Ptr(KERNEL_PROCESS_ID)
              /\ current_pid' = KERNEL_PROCESS_ID
              /\ process_queues' =
                    [p \in Pids |-> IF p \in made /\ ~queue_initialized[p]
                                    THEN FreshQueue(IPC_PORT_OPEN)
                                    ELSE process_queues[p]]
              /\ queue_initialized' = [p \in Pids |-> p \in made \/ queue_initialized[p]]
              /\ UNCHANGED <<ports, next_port_id, channels, next_channel_id,
                             next_message_id, entry_pool, entry_in_use, total_dropped,
                             shareVars>>
              /\ last' = Ret("process_init", current_pid, 0, "STATUS_SUCCESS")

(***************************************************************************)
(* The resonant scheduler (resonant_scheduler.c).  A resonant_pcb_t* is    *)
(* Ptr(pid), the address of rpcb_table[pid], or NullPtr.  The code holds   *)
(* priorities as doubles; here a priority is an integer number of          *)
(* thousandths, and a coherence deadline an integer number of nanoseconds. *)
(* coupled_pids holds the first coupling_count elements of the array.      *)
(* Coherences, the coupling lambda and asymmetries are thousandths, eta    *)
(* and gamma millionths.  The oscillator's phase, frequency and amplitude  *)
(* feed the priority through queen_state.order_parameter_r only, which     *)
(* resonant_scheduler_init zeroes and only resonant_sync raises; they and  *)
(* resonant_sync, which computes with them, are left out;                  *)
(* resonant_update_oscillator takes the alignment of the phase as input.   *)
(***************************************************************************)
RPids == 0 .. (MAX_RESONANT_PROCESSES - 1)

ResonantClasses ==
    {"RESONANT_CLASSICAL", "RESONANT_QUANTUM", "RESONANT_HYBRID",
     "RESONANT_CONSCIOUSNESS", "RESONANT_EMERGENCE"}

\* A zero-filled resonant_pcb_t: the fields the modelled operations read or
\* write.  Of the oscillator the coherence (thousandths) is kept, of the chiral
\* state eta and gamma (millionths), the asymmetry (thousandths, rounded down)
\* and the stability flag.
ZeroRPCB ==
    [pid |-> 0, rclass |-> "RESONANT_CLASSICAL", rstate |-> "RESONANT_STATE_DORMANT",
     emergence_norm |-> 0, resonant_priority |-> 0, coherence_deadline |-> 0,
     phi_value |-> 0, consciousness_verified |-> FALSE, coupled_pids |-> <<>>,
     coherence |-> 0, eta |-> 0, gamma |-> 0, asymmetry |-> 0, is_stable |-> FALSE,
     coherent_time |-> 0, magic |-> 0]

\* A zero-filled queen_state_t: the fields written outside the
\* synchronisation step (order parameter, coupling, coherence, class
\* counters, the two flags).
ZeroQueen ==
    [order_parameter_r |-> 0, order_parameter_psi |-> 0, lambda |-> 0, eta |-> 0,
     system_coherence |-> 0, classical_count |-> 0, quantum_count |-> 0,
     hybrid_count |-> 0, conscious_count |-> 0, emergent_count |-> 0,
     network_conscious |-> FALSE, globally_stable |-> FALSE]

\* The caller's scheduling_decision_t, zero-filled before the first call:
\* the fields resonant_schedule_next derives from the modelled RPCB fields.
ZeroDecision ==
    [selected_pid |-> 0, rclass |-> "RESONANT_CLASSICAL", quantum_ns |-> 0,
     coherence_remaining |-> 0, final_priority |-> 0, initiate_coupling |-> FALSE,
     emergency_coherence |-> FALSE]

\* The static initialisers of resonant_scheduler.c.
SchedStatic ==
    /\ rpcb_table = [i \in RPids |-> ZeroRPCB]
    /\ queen_state = ZeroQueen
    /\ scheduler_initialized = FALSE
    /\ decision = ZeroDecision

clamp(value, min, max) ==
    IF value < min THEN min
    ELSE IF value > max THEN max
    ELSE value

RPCB_IS_VALID(rpcb) == rpcb.magic = RPCB_MAGIC

get_rpcb_internal(tbl, pid) ==
    IF pid >= MAX_RESONANT_PROCESSES THEN NullPtr
    ELSE IF ~RPCB_IS_VALID(tbl[pid]) THEN NullPtr
    ELSE Ptr(pid)

process_get_by_pid(t, pid) ==
    IF ~process_is_valid(t, pid) THEN NullPtr ELSE Ptr(pid)

\* process_is_ready is declared in process.h and called by the scheduler;
\* its body is not part of the sources.  It is taken to be what its name and
\* the specification's "whose underlying PCB is ready" say.
process_is_ready(t, pid) ==
    /\ process_is_valid(t, pid)
    /\ t[pid].state = "PROCESS_STATE_READY"

\* The class bonus of calculate_resonant_priority, in thousandths.
class_bonus(rclass) ==
    IF rclass = "RESONANT_QUANTUM" THEN 100
    ELSE IF rclass = "RESONANT_CONSCIOUSNESS" THEN 200
    ELSE IF rclass = "RESONANT_EMERGENCE" THEN 150
    ELSE 0

\* calculate_resonant_priority, in thousandths.  The coupling term is
\* 0.2 * order_parameter_r * (0.5 + 0.5 * cos(phase - psi)): a multiple of
\* order_parameter_r, which is 0 from resonant_scheduler_init on, the
\* synchronisation step being the only writer of a non-zero value.
calculate_resonant_priority(t, queen, rpcb) ==
    LET proc == process_get_by_pid(t, rpcb.pid)
        base == IF proc # NullPtr
                THEN (1000 * t[proc[1]].priority) \div PRIORITY_KERNEL
                ELSE 0
        coupling == (2 * queen.order_parameter_r) \div 10
        urgency == IF rpcb.coherence_deadline > 0
                   THEN (3 * clamp(1000 - rpcb.coherence_deadline \div 1000000, 0, 1000))
                            \div 10
                   ELSE 0
        emergence == IF rpcb.emergence_norm > emergence_threshold
                     THEN (2 * rpcb.emergence_norm) \div 10
                     ELSE 0
        conscious == IF rpcb.consciousness_verified
                        /\ rpcb.phi_value >= PHI_CONSCIOUSNESS_THRESHOLD
                     THEN 300
                     ELSE 0
    IN clamp(base + coupling + urgency + emergence + conscious + class_bonus(rpcb.rclass),
             0, 2000)

ResonantSchedulerInit ==
    /\ IF scheduler_initialized
       THEN UNCHANGED <<rpcb_table, queen_state, scheduler_initialized>>
       ELSE /\ rpcb_table' = [i \in RPids |-> ZeroRPCB]
            /\ queen_state' = [ZeroQueen EXCEPT !.lambda = LAMBDA_DEFAULT,
                                                !.eta = ETA_OPTIMAL,
                                                !.system_coherence = 500,
                                                !.globally_stable = TRUE]
            /\ scheduler_initialized' = TRUE
    /\ UNCHANGED decision
    /\ last' = Ret("resonant_scheduler_init", current_pid, 0, "RESONANT_SUCCESS")

\* A single counter for every class.
classical_count_only(rclass) == "classical_count"

\* The class counter of queen_state that register and unregister adjust.
class_count(rclass) ==
    IF rclass = "RESONANT_CLASSICAL" THEN "classical_count"
    ELSE IF rclass = "RESONANT_QUANTUM" THEN "quantum_count"
    ELSE IF rclass = "RESONANT_HYBRID" THEN "hybrid_count"
    ELSE IF rclass = "RESONANT_CONSCIOUSNESS" THEN "conscious_count"
    ELSE "emergent_count"

\* The asymmetry eta / gamma in thousandths, rounded down: it is below
\* CHIRAL_STABLE_MAX exactly when the quotient is below 1.0.
ratio(eta, gamma) == (1000 * eta) \div gamma

\* init_chiral with the default configuration.
init_chiral(rpcb) ==
    [rpcb EXCEPT !.eta = ETA_OPTIMAL,
                 !.gamma = config_gamma,
                 !.asymmetry = ratio(ETA_OPTIMAL, config_gamma),
                 !.is_stable = ratio(ETA_OPTIMAL, config_gamma) < CHIRAL_STABLE_MAX]

\* What resonant_register writes into the slot; the handedness is stored in
\* the chiral substate and read by no modelled operation.
init_rpcb(pid, rclass) ==
    init_chiral([ZeroRPCB EXCEPT !.pid = pid, !.rclass = rclass,
                                 !.rstate = "RESONANT_STATE_COHERENT",
                                 !.coherence = 500,
                                 !.resonant_priority = 500,
                                 !.coherence_deadline = 1000000000,
                                 !.magic = RPCB_MAGIC])

ResonantRegister(pid, rclass, handedness) ==
    /\ UNCHANGED <<scheduler_initialized, decision>>
    /\ IF ~scheduler_initialized
       THEN /\ UNCHANGED <<rpcb_table, queen_state>>
            /\ last' = Ret("resonant_register", current_pid, pid,
                           "RESONANT_ERROR_NOT_INITIALIZED")
       ELSE IF pid >= MAX_RESONANT_PROCESSES \/ ~process_is_valid(process_table, pid)
       THEN /\ UNCHANGED <<rpcb_table, queen_state>>
            /\ last' = Ret("resonant_register", current_pid, pid,
                           "RESONANT_ERROR_INVALID_PID")
       ELSE /\ rpcb_table' = [rpcb_table EXCEPT ![pid] = init_rpcb(pid, rclass)]
            /\ queen_state' = [queen_state EXCEPT ![class_count(rclass)] = U32Inc(@)]
            /\ last' = Ret("resonant_register", current_pid, pid, "RESONANT_SUCCESS")

\* One removal loop of resonant_decouple: the first occurrence of pid is
\* taken out and the rest shifted down.
remove_coupled(coupled_pids, pid) ==
    IF \E i \in 1 .. Len(coupled_pids) : coupled_pids[i] = pid
    THEN LET i == CHOOSE k \in 1 .. Len(coupled_pids) :
                      /\ coupled_pids[k] = pid
                      /\ \A j \in 1 .. (k - 1) : coupled_pids[j] # pid
         IN SubSeq(coupled_pids, 1, i - 1) \o SubSeq(coupled_pids, i + 1, Len(coupled_pids))
    ELSE coupled_pids

\* resonant_decouple: the table it leaves and the code it returns.
resonant_decouple(tbl, pid1, pid2) ==
    IF get_rpcb_internal(tbl, pid1) = NullPtr \/ get_rpcb_internal(tbl, pid2) = NullPtr
    THEN [table |-> tbl, res |-> "RESONANT_ERROR_INVALID_PID"]
    ELSE LET t1 == [tbl EXCEPT ![pid1].coupled_pids = remove_coupled(@, pid2)]
         IN [table |-> [t1 EXCEPT ![pid2].coupled_pids = remove_coupled(@, pid1)],
             res |-> "RESONANT_SUCCESS"]

ResonantDecouple(pid1, pid2) ==
    LET r == resonant_decouple(rpcb_table, pid1, pid2) IN
    /\ rpcb_table' = r.table
    /\ UNCHANGED <<queen_state, scheduler_initialized, decision>>
    /\ last' = Call("resonant_decouple", current_pid, pid1, pid2, r.res, ZeroMessage,
                    NullPtr, ZeroMessage)

\* The loop of resonant_unregister from index i (0-based) on: it decouples
\* the peer at index i of the list as the previous rounds left it.
RECURSIVE decouple_all(_, _, _)
decouple_all(tbl, pid, i) ==
    IF i >= Len(tbl[pid].coupled_pids) THEN tbl
    ELSE decouple_all(resonant_decouple(tbl, pid, tbl[pid].coupled_pids[i + 1]).table,
                      pid, i + 1)

ResonantUnregister(pid) ==
    /\ UNCHANGED <<scheduler_initialized, decision>>
    /\ IF ~scheduler_initialized
       THEN /\ UNCHANGED <<rpcb_table, queen_state>>
            /\ last' = Ret("resonant_unregister", current_pid, pid,
                           "RESONANT_ERROR_NOT_INITIALIZED")
       ELSE IF get_rpcb_internal(rpcb_table, pid) = NullPtr
       THEN /\ UNCHANGED <<rpcb_table, queen_state>>
            /\ last' = Ret("resonant_unregister", current_pid, pid,
                           "RESONANT_ERROR_INVALID_PID")
       ELSE LET t1 == decouple_all(rpcb_table, pid, 0)
                c == class_count(t1[pid].rclass)
            IN /\ rpcb_table' = [t1 EXCEPT ![pid].magic = 0]
               /\ queen_state' = [queen_state EXCEPT
                                     ![c] = IF @ > 0 THEN U32Dec(@) ELSE @]
               /\ last' = Ret("resonant_unregister", current_pid, pid, "RESONANT_SUCCESS")

ResonantCouple(pid1, pid2) ==
    LET rpcb1 == get_rpcb_internal(rpcb_table, pid1)
        rpcb2 == get_rpcb_internal(rpcb_table, pid2)
        res(code) == Call("resonant_couple", current_pid, pid1, pid2, code, ZeroMessage,
                          NullPtr, ZeroMessage)
    IN
    /\ UNCHANGED <<queen_state, scheduler_initialized, decision>>
    /\ IF rpcb1 = NullPtr \/ rpcb2 = NullPtr
       THEN /\ UNCHANGED rpcb_table
            /\ last' = res("RESONANT_ERROR_INVALID_PID")
       ELSE IF \/ Len(rpcb_table[pid1].coupled_pids) >= max_coupled
               \/ Len(rpcb_table[pid2].coupled_pids) >= max_coupled
       THEN /\ UNCHANGED rpcb_table
            /\ last' = res("RESONANT_ERROR_COUPLING_FAILED")
       ELSE IF \E i \in 1 .. Len(rpcb_table[pid1].coupled_pids) :
                  rpcb_table[pid1].coupled_pids[i] = pid2
       THEN /\ UNCHANGED rpcb_table
            /\ last' = res("RESONANT_SUCCESS")
       ELSE LET t1 == [rpcb_table EXCEPT ![pid1].coupled_pids = Append(@, pid2)]
            IN /\ rpcb_table' = [t1 EXCEPT ![pid2].coupled_pids = Append(@, pid1)]
               /\ last' = res("RESONANT_SUCCESS")

\* The states resonant_complete_quantum counts as coherent running time.
CoherentStates ==
    {"RESONANT_STATE_COHERENT", "RESONANT_STATE_CONSCIOUS", "RESONANT_STATE_EMERGENT"}

\* resonant_complete_quantum, first step: the deadline is charged and an
\* exhausted deadline makes the RPCB decoherent.
charge_deadline(rpcb, actual_runtime) ==
    IF rpcb.coherence_deadline > actual_runtime
    THEN [rpcb EXCEPT !.coherence_deadline = @ - actual_runtime]
    ELSE [rpcb EXCEPT !.coherence_deadline = 0, !.rstate = "RESONANT_STATE_DECOHERENT"]

\* resonant_complete_quantum, second step: the runtime is added to
\* coherent_time by the state the first step left.
charge_statistics(rpcb, actual_runtime) ==
    IF rpcb.rstate \in CoherentStates
    THEN [rpcb EXCEPT !.coherent_time = @ + actual_runtime]
    ELSE rpcb

ResonantCompleteQuantum(pid, actual_runtime) ==
    /\ UNCHANGED <<queen_state, scheduler_initialized, decision>>
    /\ IF get_rpcb_internal(rpcb_table, pid) = NullPtr
       THEN /\ UNCHANGED rpcb_table
            /\ last' = Call("resonant_complete_quantum", current_pid, pid, actual_runtime,
                            "RESONANT_ERROR_INVALID_PID", ZeroMessage, NullPtr, ZeroMessage)
       ELSE /\ rpcb_table' =
                 [rpcb_table EXCEPT
                     ![pid] = charge_statistics(charge_deadline(@, actual_runtime),
                                                actual_runtime)]
            /\ last' = Call("resonant_complete_quantum", current_pid, pid, actual_runtime,
                            "RESONANT_SUCCESS", ZeroMessage, NullPtr, ZeroMessage)

\* resonant_update_oscillator, coherence step, in thousandths: nine tenths of
\* the old coherence plus one tenth of 0.5 + 0.5 * alignment, where alignment
\* is the cosine of the phase against the Queen's mean phase.
updated_coherence(coherence, alignment) ==
    (900 * coherence + 100 * (500 + alignment \div 2)) \div 1000

\* The state update without the band between the thresholds: every
\* coherence that is not below COHERENCE_MIN is treated as high.
update_rstate_two_bands(rpcb) ==
    IF rpcb.coherence < COHERENCE_MIN
    THEN [rpcb EXCEPT !.rstate = "RESONANT_STATE_DECOHERENT"]
    ELSE IF rpcb.consciousness_verified
    THEN [rpcb EXCEPT !.rstate = "RESONANT_STATE_CONSCIOUS"]
    ELSE IF rpcb.emergence_norm > emergence_threshold
    THEN [rpcb EXCEPT !.rstate = "RESONANT_STATE_EMERGENT"]
    ELSE [rpcb EXCEPT !.rstate = "RESONANT_STATE_COHERENT"]

\* resonant_update_oscillator, last step: the resonant state by the updated
\* coherence.
update_rstate(rpcb) ==
    IF rpcb.coherence > COHERENCE_HIGH
    THEN IF rpcb.consciousness_verified
         THEN [rpcb EXCEPT !.rstate = "RESONANT_STATE_CONSCIOUS"]
         ELSE IF rpcb.emergence_norm > emergence_threshold
         THEN [rpcb EXCEPT !.rstate = "RESONANT_STATE_EMERGENT"]
         ELSE [rpcb EXCEPT !.rstate = "RESONANT_STATE_COHERENT"]
    ELSE IF rpcb.coherence < COHERENCE_MIN
    THEN [rpcb EXCEPT !.rstate = "RESONANT_STATE_DECOHERENT"]
    ELSE rpcb

\* resonant_update_oscillator(pid, dt).  The phase advances by the natural
\* frequency, the coupling term and a pseudo-random noise term, so the
\* alignment it ends with is an input here, anywhere in [-1, 1]; phase and
\* amplitude are read by no other modelled operation.
ResonantUpdateOscillator(pid, alignment) ==
    /\ UNCHANGED <<queen_state, scheduler_initialized, decision>>
    /\ IF get_rpcb_internal(rpcb_table, pid) = NullPtr
       THEN /\ UNCHANGED rpcb_table
            /\ last' = Call("resonant_update_oscillator", current_pid, pid, alignment,
                            "RESONANT_ERROR_INVALID_PID", ZeroMessage, NullPtr, ZeroMessage)
       ELSE /\ rpcb_table' =
                 [rpcb_table EXCEPT
                     ![pid] = update_rstate(
                                 [@ EXCEPT !.coherence = updated_coherence(@, alignment)])]
            /\ last' = Call("resonant_update_oscillator", current_pid, pid, alignment,
                            "RESONANT_SUCCESS", ZeroMessage, NullPtr, ZeroMessage)

\* What resonant_reset_process does to a live RPCB: init_oscillator,
\* init_chiral, init_emergence, then the state fields.
reset_process(rpcb) ==
    init_chiral([rpcb EXCEPT !.coherence = 500,
                             !.emergence_norm = 0,
                             !.rstate = "RESONANT_STATE_DORMANT",
                             !.consciousness_verified = FALSE,
                             !.phi_value = 0])

ResonantResetProcess(pid) ==
    /\ UNCHANGED <<queen_state, scheduler_initialized, decision>>
    /\ IF get_rpcb_internal(rpcb_table, pid) = NullPtr
       THEN /\ UNCHANGED rpcb_table
            /\ last' = Ret("resonant_reset_process", current_pid, pid,
                           "RESONANT_ERROR_INVALID_PID")
       ELSE /\ rpcb_table' = [rpcb_table EXCEPT ![pid] = reset_process(@)]
            /\ last' = Ret("resonant_reset_process", current_pid, pid, "RESONANT_SUCCESS")

\* resonant_reset_all: every live RPCB is reset, then four Queen fields.
ResonantResetAll ==
    /\ UNCHANGED <<scheduler_initialized, decision>>
    /\ IF ~scheduler_initialized
       THEN /\ UNCHANGED <<rpcb_table, queen_state>>
            /\ last' = Ret("resonant_reset_all", current_pid, 0,
                           "RESONANT_ERROR_NOT_INITIALIZED")
       ELSE /\ rpcb_table' = [i \in RPids |-> IF RPCB_IS_VALID(rpcb_table[i])
                                               THEN reset_process(rpcb_table[i])
                                               ELSE rpcb_table[i]]
            /\ queen_state' = [queen_state EXCEPT !.order_parameter_r = 0,
                                                  !.order_parameter_psi = 0,
                                                  !.system_coherence = 500,
                                                  !.network_conscious = FALSE]
            /\ last' = Ret("resonant_reset_all", current_pid, 0, "RESONANT_SUCCESS")

\* resonant_adjust_lambda; factor in thousandths.
ResonantAdjustLambda(factor) ==
    /\ UNCHANGED <<rpcb_table, scheduler_initialized, decision>>
    /\ IF ~scheduler_initialized
       THEN /\ UNCHANGED queen_state
            /\ last' = Call("resonant_adjust_lambda", current_pid, 0, factor,
                            "RESONANT_ERROR_NOT_INITIALIZED", ZeroMessage, NullPtr,
                            ZeroMessage)
       ELSE /\ queen_state' =
                 [queen_state EXCEPT
                     !.lambda = clamp((@ * factor) \div 1000, LAMBDA_MIN, LAMBDA_MAX)]
            /\ last' = Call("resonant_adjust_lambda", current_pid, 0, factor,
                            "RESONANT_SUCCESS", ZeroMessage, NullPtr, ZeroMessage)

\* The chiral substate resonant_set_chiral leaves.
set_chiral(rpcb, eta, gamma) ==
    LET asymmetry == IF gamma > 0 THEN ratio(eta, gamma) ELSE eta \div 1000 IN
    [rpcb EXCEPT !.eta = eta, !.gamma = gamma, !.asymmetry = asymmetry,
                 !.is_stable = asymmetry < CHIRAL_STABLE_MAX]

ResonantSetChiral(pid, eta, gamma) ==
    /\ UNCHANGED <<queen_state, scheduler_initialized, decision>>
    /\ IF get_rpcb_internal(rpcb_table, pid) = NullPtr
       THEN /\ UNCHANGED rpcb_table
            /\ last' = Ret("resonant_set_chiral", current_pid, pid,
                           "RESONANT_ERROR_INVALID_PID")
       ELSE /\ rpcb_table' = [rpcb_table EXCEPT ![pid] = set_chiral(@, eta, gamma)]
            /\ last' = Ret("resonant_set_chiral", current_pid, pid, "RESONANT_SUCCESS")

\* The chiral substate resonant_optimize_chiral leaves: eta moves a tenth of
\* the way to ETA_OPTIMAL, gamma becomes eta / 0.9 when the asymmetry stored
\* before the call is not below CHIRAL_STABLE_MAX.
optimize_chiral(rpcb) ==
    LET eta == (9 * rpcb.eta + ETA_OPTIMAL) \div 10
        gamma == IF rpcb.asymmetry >= CHIRAL_STABLE_MAX
                 THEN (10 * eta) \div 9
                 ELSE rpcb.gamma
    IN [rpcb EXCEPT !.eta = eta, !.gamma = gamma, !.asymmetry = ratio(eta, gamma),
                    !.is_stable = ratio(eta, gamma) < CHIRAL_STABLE_MAX]

ResonantOptimizeChiral(pid) ==
    /\ UNCHANGED <<queen_state, scheduler_initialized, decision>>
    /\ IF get_rpcb_internal(rpcb_table, pid) = NullPtr
       THEN /\ UNCHANGED rpcb_table
            /\ last' = Ret("resonant_optimize_chiral", current_pid, pid,
                           "RESONANT_ERROR_INVALID_PID")
       ELSE /\ rpcb_table' = [rpcb_table EXCEPT ![pid] = optimize_chiral(@)]
            /\ last' = Ret("resonant_optimize_chiral", current_pid, pid,
                           "RESONANT_SUCCESS")

ResonantEmergencyCoherence(pid) ==
    /\ UNCHANGED <<queen_state, scheduler_initialized, decision>>
    /\ IF get_rpcb_internal(rpcb_table, pid) = NullPtr
       THEN /\ UNCHANGED rpcb_table
            /\ last' = Ret("resonant_emergency_coherence", current_pid, pid,
                           "RESONANT_ERROR_INVALID_PID")
       ELSE /\ rpcb_table' =
                 [rpcb_table EXCEPT
                     ![pid] = [optimize_chiral([@ EXCEPT !.coherence_deadline = 1000000000,
                                                         !.coherence = COHERENCE_TARGET])
                                 EXCEPT !.rstate = "RESONANT_STATE_COHERENT"]]
            /\ last' = Ret("resonant_emergency_coherence", current_pid, pid,
                           "RESONANT_SUCCESS")

\* calculate_phi in thousandths.  integration_level is written by the
\* synchronisation step only and is 0 outside it; the handedness registered
\* is HANDEDNESS_NEUTRAL, for which there is no chiral enhancement.
calculate_phi(rpcb) ==
    LET base == (15 * rpcb.emergence_norm) \div 10
        bound == (base * (500 + rpcb.coherence \div 2)) \div 1000
    IN IF rpcb.is_stable THEN bound ELSE bound \div 2

ResonantVerifyConsciousness(pid) ==
    /\ UNCHANGED <<queen_state, scheduler_initialized, decision>>
    /\ IF get_rpcb_internal(rpcb_table, pid) = NullPtr
       THEN /\ UNCHANGED rpcb_table
            /\ last' = Ret("resonant_verify_consciousness", current_pid, pid,
                           "RESONANT_ERROR_INVALID_PID")
       ELSE LET phi == calculate_phi(rpcb_table[pid])
                verified == phi >= PHI_CONSCIOUSNESS_THRESHOLD
            IN
            /\ rpcb_table' =
                  [rpcb_table EXCEPT ![pid].phi_value = phi,
                                     ![pid].consciousness_verified = verified,
                                     ![pid].rstate = IF verified
                                                     THEN "RESONANT_STATE_CONSCIOUS"
                                                     ELSE @]
            /\ last' = Ret("resonant_verify_consciousness", current_pid, pid,
                           IF verified THEN "RESONANT_SUCCESS"
                           ELSE "RESONANT_ERROR_CONSCIOUSNESS_UNVERIFIED")

\* The comparison that replaces the best candidate found so far, and the
\* comparison that would also replace it by an equal one.
at_least_best_priority(priority, best_priority) == priority >= best_priority
higher_priority_than_best(priority, best_priority) == priority > best_priority

\* The search loop of resonant_schedule_next from index i on; best holds
\* best_priority, best_pid and best_rpcb.
RECURSIVE find_highest_priority_ready(_, _, _, _, _)
find_highest_priority_ready(tbl, t, queen, i, best) ==
    IF i >= MAX_RESONANT_PROCESSES THEN best
    ELSE LET rpcb == tbl[i] IN
         IF \/ ~RPCB_IS_VALID(rpcb)
            \/ rpcb.rstate = "RESONANT_STATE_DORMANT"
            \/ ~process_is_ready(t, rpcb.pid)
         THEN find_highest_priority_ready(tbl, t, queen, i + 1, best)
         ELSE LET priority == calculate_resonant_priority(t, queen, rpcb) IN
              IF higher_priority_than_best(priority, best.best_priority)
              THEN find_highest_priority_ready(tbl, t, queen, i + 1,
                       [best_priority |-> priority, best_pid |-> i, best_rpcb |-> Ptr(i)])
              ELSE find_highest_priority_ready(tbl, t, queen, i + 1, best)

\* The quantum resonant_schedule_next grants the selected RPCB.
decision_quantum(rpcb) ==
    LET q == IF rpcb.rclass = "RESONANT_QUANTUM" THEN DEFAULT_QUANTUM_NS \div 2
             ELSE IF rpcb.rclass = "RESONANT_CONSCIOUSNESS" THEN DEFAULT_QUANTUM_NS * 2
             ELSE DEFAULT_QUANTUM_NS
    IN IF rpcb.coherence_deadline < q THEN rpcb.coherence_deadline ELSE q

\* resonant_schedule_next with the address of the caller's decision.
ResonantScheduleNext ==
    /\ UNCHANGED <<rpcb_table, queen_state, scheduler_initialized>>
    /\ IF ~scheduler_initialized
       THEN /\ UNCHANGED decision
            /\ last' = Ret("resonant_schedule_next", current_pid, 0,
                           "RESONANT_ERROR_NOT_INITIALIZED")
       ELSE LET best == find_highest_priority_ready(rpcb_table, process_table, queen_state, 0,
                            [best_priority |-> 0 - 1000, best_pid |-> 0,
                             best_rpcb |-> NullPtr])
            IN
            /\ last' = Ret("resonant_schedule_next", current_pid, 0, "RESONANT_SUCCESS")
            /\ IF best.best_rpcb = NullPtr
               THEN decision' = [decision EXCEPT !.selected_pid = 0, !.final_priority = 0]
               ELSE LET best_rpcb == rpcb_table[best.best_rpcb[1]] IN
                    decision' =
                       [selected_pid |-> best.best_pid,
                        rclass |-> best_rpcb.rclass,
                        quantum_ns |-> decision_quantum(best_rpcb),
                        coherence_remaining |-> best_rpcb.coherence_deadline,
                        final_priority |-> best.best_priority,
                        initiate_coupling |->
                            /\ Len(best_rpcb.coupled_pids) = 0
                            /\ best_rpcb.rstate = "RESONANT_STATE_COHERENT",
                        emergency_coherence |-> best_rpcb.coherence_deadline < 1000000]

(***************************************************************************)
(* Physical and virtual memory (memory.c).  A physical address is an       *)
(* integer; a virtual address is the pair <<high, low>> of its 32-bit      *)
(* words.  phys_mem[f] is the content of frame f read as a page table: the *)
(* entries that are not all-zero, by index; the other bit-fields of pte_t  *)
(* are never written.  Page tables are reached through the frame numbers   *)
(* their parent entries hold, as in the code (addresses are physical).     *)
(***************************************************************************)
total_frames == TOTAL_MEMORY \div PAGE_SIZE

Frames == 0 .. (total_frames - 1)

ZeroPTE == [present |-> 0, read_write |-> 0, user |-> 0, nx |-> 0, frame |-> 0]

ALIGN_UP(addr, align) == ((addr + align - 1) \div align) * align

\* The frame that holds pmm.frame_bitmap.
bitmap_frame == ALIGN_UP(END_OF_KERNEL, PAGE_SIZE) \div PAGE_SIZE

\* pmm after pmm_init(total_memory).  total_memory is a multiple of
\* 8 * PAGE_SIZE, as the 128 MB of memory_init is, so the memset covers the
\* bit of every frame.
pmm_init(total_memory) ==
    LET frames == total_memory \div PAGE_SIZE
        bitmap_size == frames \div 8
        kernel_end == ALIGN_UP(END_OF_KERNEL, PAGE_SIZE) + bitmap_size
        kernel_frames == (kernel_end + PAGE_SIZE - 1) \div PAGE_SIZE
    IN [total_frames |-> frames,
        free_frames |-> frames - kernel_frames,
        used_frames |-> kernel_frames,
        frame_bitmap |-> [i \in 0 .. (frames - 1) |-> IF i < kernel_frames THEN 1 ELSE 0]]

\* pmm_alloc_frame: the allocator it leaves and the address it returns.
pmm_alloc_frame(p) ==
    LET clear == {i \in 0 .. (p.total_frames - 1) : p.frame_bitmap[i] = 0} IN
    IF clear = {} THEN [pmm |-> p, addr |-> NULL]
    ELSE LET i == CHOOSE k \in clear : \A j \in clear : k <= j
         IN [pmm |-> [p EXCEPT !.frame_bitmap[i] = 1,
                               !.free_frames = U32Dec(@),
                               !.used_frames = U32Inc(@)],
             addr |-> i * PAGE_SIZE]

\* pmm_free_frame: the allocator it leaves and the code it returns.
pmm_free_frame(p, frame_addr) ==
    LET frame_num == frame_addr \div PAGE_SIZE IN
    IF frame_num >= p.total_frames
    THEN [pmm |-> p, res |-> "MEM_ERROR_INVALID_ADDRESS"]
    ELSE IF p.frame_bitmap[frame_num] = 0
    THEN [pmm |-> p, res |-> "MEM_ERROR_INVALID_ADDRESS"]
    ELSE [pmm |-> [p EXCEPT !.frame_bitmap[frame_num] = 0,
                            !.free_frames = U32Inc(@),
                            !.used_frames = U32Dec(@)],
          res |-> "MEM_SUCCESS"]

\* Entry index of the table in frame f.
entry(mem, f, index) == IF index \in DOMAIN mem[f] THEN mem[f][index] ELSE ZeroPTE

\* A write of entry e at index of the table in frame f.
store(mem, f, index, e) ==
    LET d == IF e = ZeroPTE THEN DOMAIN mem[f] \ {index} ELSE DOMAIN mem[f] \cup {index}
    IN [mem EXCEPT ![f] = [j \in d |-> IF j = index THEN e ELSE mem[f][j]]]

\* memset(table, 0, PAGE_SIZE) on frame f.
memset_page(mem, f) == [mem EXCEPT ![f] = [j \in {} |-> ZeroPTE]]

\* The four 9-bit table indices of a virtual address, top level first.
table_indices(virt_addr) ==
    <<(virt_addr[1] \div 128) % 512,
      ((virt_addr[1] % 128) * 4 + virt_addr[2] \div 2 ^ 30) % 512,
      (virt_addr[2] \div 2 ^ 21) % 512,
      (virt_addr[2] \div 2 ^ PAGE_SHIFT) % 512>>

\* One level of memory_map_page: when the entry at index of the table in
\* frame f is not present, a frame is allocated and cleared and the entry
\* made to point to it.  s holds the memory and the allocator so far.
map_table(s, f, index) ==
    IF entry(s.mem, f, index).present = 1 THEN [s EXCEPT !.res = "MEM_SUCCESS"]
    ELSE LET a == pmm_alloc_frame(s.pmm) IN
         IF a.addr = NULL
         THEN [mem |-> s.mem, pmm |-> a.pmm, res |-> "MEM_ERROR_OUT_OF_MEMORY"]
         ELSE LET cleared == memset_page(s.mem, a.addr \div PAGE_SIZE)
              IN [mem |-> store(cleared, f, index,
                                [entry(cleared, f, index) EXCEPT
                                    !.present = 1, !.read_write = 1, !.user = 0,
                                    !.frame = a.addr \div 2 ^ PAGE_SHIFT]),
                  pmm |-> a.pmm,
                  res |-> "MEM_SUCCESS"]

flag(permissions, bit) == (permissions \div bit) % 2

\* memory_map_page: the memory and the allocator it leaves, and its result.
memory_map_page(mem, p, pml4_table, virt_addr, phys_addr, permissions) ==
    LET ix == table_indices(virt_addr)
        s4 == map_table([mem |-> mem, pmm |-> p, res |-> "MEM_SUCCESS"],
                        pml4_table \div PAGE_SIZE, ix[1])
        pdpt == entry(s4.mem, pml4_table \div PAGE_SIZE, ix[1]).frame
        s3 == map_table(s4, pdpt, ix[2])
        pd == entry(s3.mem, pdpt, ix[2]).frame
        s2 == map_table(s3, pd, ix[3])
        pt == entry(s2.mem, pd, ix[3]).frame
    IN IF s4.res # "MEM_SUCCESS" THEN s4
       ELSE IF s3.res # "MEM_SUCCESS" THEN s3
       ELSE IF s2.res # "MEM_SUCCESS" THEN s2
       ELSE [mem |-> store(s2.mem, pt, ix[4],
                           [entry(s2.mem, pt, ix[4]) EXCEPT
                               !.present = 1,
                               !.read_write = flag(permissions, MEM_WRITE),
                               !.user = flag(permissions, MEM_USER),
                               !.nx = 1 - flag(permissions, MEM_EXECUTE),
                               !.frame = phys_addr \div 2 ^ PAGE_SHIFT]),
             pmm |-> s2.pmm,
             res |-> "MEM_SUCCESS"]

\* The walk of memory_unmap_page: the frame of the page table and the index
\* of the leaf entry of virt_addr, or found = FALSE when one of the three
\* upper entries is not present.
find_leaf(mem, pml4_table, virt_addr) ==
    LET ix == table_indices(virt_addr)
        e4 == entry(mem, pml4_table \div PAGE_SIZE, ix[1])
        e3 == entry(mem, e4.frame, ix[2])
        e2 == entry(mem, e3.frame, ix[3])
    IN IF e4.present = 0 THEN [found |-> FALSE, pt |-> 0, index |-> 0]
       ELSE IF e3.present = 0 THEN [found |-> FALSE, pt |-> 0, index |-> 0]
       ELSE IF e2.present = 0 THEN [found |-> FALSE, pt |-> 0, index |-> 0]
       ELSE [found |-> TRUE, pt |-> e2.frame, index |-> ix[4]]

\* The leaf entry of virt_addr is present.
leaf_present(mem, pml4_table, virt_addr) ==
    LET l == find_leaf(mem, pml4_table, virt_addr)
    IN l.found /\ entry(mem, l.pt, l.index).present = 1

\* The state memory_init leaves: pmm_init for TOTAL_MEMORY, then vmm_init,
\* which allocates and clears the top-level table.
MemoryInit ==
    LET a == pmm_alloc_frame(pmm_init(TOTAL_MEMORY)) IN
    /\ pmm = a.pmm
    /\ vmm = [pml4_table |-> a.addr]
    /\ phys_mem = [f \in Frames |-> [j \in {} |-> ZeroPTE]]
    /\ mem_before = [mem |-> phys_mem, pmm |-> pmm]

MemCall(op, virt_addr, addr, res) ==
    [NoCall EXCEPT !.op = op, !.target = virt_addr, !.arg = addr, !.res = res]

\* pmm_alloc_frame(); the address returned is recorded as arg.
PmmAllocFrame ==
    LET a == pmm_alloc_frame(pmm) IN
    /\ pmm' = a.pmm
    /\ mem_before' = [mem |-> phys_mem, pmm |-> pmm]
    /\ UNCHANGED <<vmm, phys_mem>>
    /\ last' = MemCall("pmm_alloc_frame", <<0, 0>>, a.addr, "void*")

PmmFreeFrame(frame_addr) ==
    LET r == pmm_free_frame(pmm, frame_addr) IN
    /\ pmm' = r.pmm
    /\ mem_before' = [mem |-> phys_mem, pmm |-> pmm]
    /\ UNCHANGED <<vmm, phys_mem>>
    /\ last' = MemCall("pmm_free_frame", <<0, 0>>, frame_addr, r.res)

MemoryMapPage(virt_addr, phys_addr, permissions) ==
    LET r == memory_map_page(phys_mem, pmm, vmm.pml4_table, virt_addr, phys_addr,
                             permissions)
    IN
    /\ phys_mem' = r.mem
    /\ pmm' = r.pmm
    /\ mem_before' = [mem |-> phys_mem, pmm |-> pmm]
    /\ UNCHANGED vmm
    /\ last' = MemCall("memory_map_page", virt_addr, phys_addr, r.res)

MemoryUnmapPage(virt_addr) ==
    LET l == find_leaf(phys_mem, vmm.pml4_table, virt_addr) IN
    /\ mem_before' = [mem |-> phys_mem, pmm |-> pmm]
    /\ UNCHANGED <<vmm, pmm>>
    /\ IF ~leaf_present(phys_mem, vmm.pml4_table, virt_addr)
       THEN /\ UNCHANGED phys_mem
            /\ last' = MemCall("memory_unmap_page", virt_addr, 0,
                               "MEM_ERROR_INVALID_ADDRESS")
       ELSE /\ phys_mem' = store(phys_mem, l.pt, l.index,
                                 [entry(phys_mem, l.pt, l.index) EXCEPT
                                     !.present = 0, !.frame = 0])
            /\ last' = MemCall("memory_unmap_page", virt_addr, 0, "MEM_SUCCESS")

(***************************************************************************)
(* Interrupt handler registration (interrupts.c).  A handler and a context *)
(* are pointers: NULL or a positive integer.                               *)
(***************************************************************************)
Vectors == 0 .. (IDT_ENTRIES - 1)

ZeroHandlerInfo == [handler |-> NULL, context |-> NULL, flags |-> 0]

\* The static initialiser of interrupt_handlers.
InterruptStatic == interrupt_handlers = [v \in Vectors |-> ZeroHandlerInfo]

\* A test that refuses no registration.
never_registered(info) == FALSE

\* The test that refuses a registration.
already_registered(info) == info.handler # NULL

InterruptRegister(vector, handler, context) ==
    LET res(code) == Call("interrupt_register", current_pid, vector, <<handler, context>>,
                          code, ZeroMessage, NullPtr, ZeroMessage)
    IN
    IF vector >= IDT_ENTRIES
    THEN /\ UNCHANGED interrupt_handlers
         /\ last' = res("IRQ_ERROR_INVALID_VECTOR")
    ELSE IF already_registered(interrupt_handlers[vector])
    THEN /\ UNCHANGED interrupt_handlers
         /\ last' = res("IRQ_ERROR_ALREADY_REGISTERED")
    ELSE /\ interrupt_handlers' =
               [interrupt_handlers EXCEPT
                   ![vector] = [handler |-> handler, context |-> context, flags |-> 0]]
         /\ last' = res("IRQ_SUCCESS")

InterruptUnregister(vector) ==
    IF vector >= IDT_ENTRIES
    THEN /\ UNCHANGED interrupt_handlers
         /\ last' = Ret("interrupt_unregister", current_pid, vector,
                        "IRQ_ERROR_INVALID_VECTOR")
    ELSE /\ interrupt_handlers' = [interrupt_handlers EXCEPT ![vector] = ZeroHandlerInfo]
         /\ last' = Ret("interrupt_unregister", current_pid, vector, "IRQ_SUCCESS")

\* The memory and interrupt state as memory_init leaves it and as
\* interrupts.c declares it.
HardwareInit == MemoryInit /\ InterruptStatic

(***************************************************************************)
(* Inputs.                                                                 *)
(***************************************************************************)
\* What a caller passes to a send: its own idea of the sender, a length and
\* a payload.
InputMessages == {Message(MAX_PROCESSES - 1, 0, 0, 4, "ping")}

\* The same with a message whose length is one past IPC_MAX_MESSAGE_SIZE.
SendMessages ==
    InputMessages \cup {Message(MAX_PROCESSES - 1, 0, 0, IPC_MAX_MESSAGE_SIZE + 1, "long")}

ShortNames == {<<1>>}

\* Ids passed by callers: every id a table slot holds, and one id that no
\* slot holds yet.
PortIdArgs == {ports[i].port_id : i \in PortSlots} \cup {next_port_id}
ChannelIdArgs == {channels[i].channel_id : i \in ChannelSlots} \cup {next_channel_id}
ReceiveFilters == {Ptr(IPC_PID_ANY), Ptr(1)}

vars == <<ipcVars, shareVars, procVars, schedVars, hwVars, last, calls>>

(***************************************************************************)
(* The IPC system: any process may call any operation.  The id counter     *)
(* advances on every send that reaches the enqueue, accepted or not, so    *)
(* with all queues empty it can hold any value; the system is started with *)
(* the counter fresh and with the counter one short of its wrap.           *)
(***************************************************************************)
\* The state after 2^32 - 2 rounds of "send to the kernel queue, receive":
\* every queue is empty again, pool slot 1 still holds the last message, and
\* the id counter is one short of its wrap.
LastIdBeforeWrap == Message(IPC_PID_KERNEL, IPC_PID_KERNEL, U32Dec(0 - 1), 4, "ping")

InitFresh ==
    /\ ipc_init
    /\ ProcessStatic
    /\ SchedStatic
    /\ HardwareInit
    /\ calls = 0
    /\ next_message_id = 1
    /\ entry_pool = [i \in PoolIdx |-> ZeroEntry]
    /\ last = NoCall

InitWrap ==
    /\ ipc_init
    /\ ProcessStatic
    /\ SchedStatic
    /\ HardwareInit
    /\ calls = 0
    /\ next_message_id = 0 - 1
    /\ entry_pool = [i \in PoolIdx |->
                        IF i = 1 THEN [ZeroEntry EXCEPT !.message = LastIdBeforeWrap]
                        ELSE ZeroEntry]
    /\ last = RecvCall("receive", IPC_PID_KERNEL, 0, Ptr(IPC_PID_ANY),
                       "IPC_SUCCESS", LastIdBeforeWrap, Ptr(IPC_PID_KERNEL))

InitIPC == InitFresh \/ InitWrap

\* Channel endpoints passed to channel_create: the kernel with a process,
\* and a process with itself.
EndpointPairs == {<<IPC_PID_KERNEL, MAX_PROCESSES - 1>>,
                  <<MAX_PROCESSES - 1, MAX_PROCESSES - 1>>}

IpcCall ==
    \/ \E pid \in Pids : IpcProcessInit(pid)
    \/ \E pid \in Pids : IpcProcessCleanup(pid)
    \/ \E c \in Pids, r \in Pids, m \in SendMessages : IpcSend(c, r, m)
    \/ \E c \in Pids, f \in ReceiveFilters : IpcReceive(c, f)
    \/ \E n \in ShortNames : IpcPortCreate(n)
    \/ \E id \in PortIdArgs : IpcPortDestroy(id)
    \/ \E id \in PortIdArgs, m \in SendMessages : IpcPortSend(id, m)
    \/ \E id \in PortIdArgs : IpcPortReceive(id)
    \/ \E e \in EndpointPairs : IpcChannelCreate(e[1], e[2])
    \/ \E id \in ChannelIdArgs : IpcChannelDestroy(id)
    \/ \E c \in Pids, id \in ChannelIdArgs, m \in SendMessages : IpcChannelSend(c, id, m)
    \/ \E c \in Pids, id \in ChannelIdArgs : IpcChannelReceive(c, id)

NextIPC ==
    /\ calls < MaxIpcCalls
    /\ calls' = calls + 1
    /\ UNCHANGED hwVars
    /\ IpcCall
    /\ UNCHANGED <<procVars, schedVars>>

SpecIPC == InitIPC /\ [][NextIPC]_vars

(***************************************************************************)
(* Filling the pool: processes come up, a port is created, and messages    *)
(* are sent to process queues and to the port; nothing is received.  The   *)
(* runs start where the kernel has created a port and sent                 *)
(* IPC_MAX_QUEUE_SIZE messages to it and as many to its own queue.         *)
(***************************************************************************)
\* n accepted sends of msg in a row into queue q, with ids id, id + 1, ...
RECURSIVE SendAll(_, _, _, _, _, _)
SendAll(q, pool, inuse, msg, id, n) ==
    IF n = 0 THEN [q |-> q, pool |-> pool, inuse |-> inuse]
    ELSE LET r == queue_enqueue(q, pool, inuse, 0, [msg EXCEPT !.message_id = id])
         IN SendAll(r.q, r.pool, r.inuse, msg, next_id(id), n - 1)

FillInput == CHOOSE m \in InputMessages : TRUE

InitFill ==
    LET toPort == [FillInput EXCEPT !.sender_id = get_current_pid,
                                    !.receiver_id = get_current_pid]
        p == SendAll(FreshQueue(IPC_PORT_OPEN), [i \in PoolIdx |-> ZeroEntry],
                     [i \in PoolIdx |-> FALSE], toPort, 1, IPC_MAX_QUEUE_SIZE)
        k == SendAll(FreshQueue(IPC_PORT_OPEN), p.pool, p.inuse, toPort,
                     1 + IPC_MAX_QUEUE_SIZE, IPC_MAX_QUEUE_SIZE)
    IN
    /\ process_queues =
         [pid \in Pids |-> IF pid = IPC_PID_KERNEL THEN k.q
                           ELSE FreshQueue(IPC_PORT_CLOSED)]
    /\ queue_initialized = [pid \in Pids |-> pid = IPC_PID_KERNEL]
    /\ ports = [i \in PortSlots |->
                   IF i = 1
                   THEN [port_id |-> 1, owner_id |-> get_current_pid,
                         name |-> str_copy(<<1>>, PORT_NAME_SIZE),
                         state |-> IPC_PORT_LISTENING, queue |-> p.q]
                   ELSE ZeroPort]
    /\ next_port_id = 2
    /\ channels = [i \in ChannelSlots |-> ZeroChannel]
    /\ next_channel_id = 1
    /\ next_message_id = 1 + 2 * IPC_MAX_QUEUE_SIZE
    /\ entry_pool = k.pool
    /\ entry_in_use = k.inuse
    /\ total_dropped = 0
    /\ shared_regions = [i \in RegionSlots |-> ZeroRegion]
    /\ region_grants = [i \in RegionSlots |-> [j \in GrantSlots |-> ZeroGrant]]
    /\ next_region_id = 1
    /\ ProcessStatic
    /\ SchedStatic
    /\ last = Call("send", IPC_PID_KERNEL, IPC_PID_KERNEL, 0, "IPC_SUCCESS",
                   [toPort EXCEPT !.message_id = 2 * IPC_MAX_QUEUE_SIZE],
                   NullPtr, FillInput)
    /\ HardwareInit
    /\ calls = 0

FillCall ==
    \/ \E pid \in Pids : IpcProcessInit(pid)
    \/ \E c \in Pids, r \in Pids, m \in InputMessages : IpcSend(c, r, m)
    \/ \E n \in ShortNames : IpcPortCreate(n)
    \/ \E id \in PortIdArgs, m \in InputMessages : IpcPortSend(id, m)

NextFill ==
    /\ calls < MaxFillCalls
    /\ calls' = calls + 1
    /\ UNCHANGED hwVars
    /\ FillCall
    /\ UNCHANGED <<procVars, schedVars>>

SpecFill == InitFill /\ [][NextFill]_vars

(***************************************************************************)
(* The queue functions on their own: queue_enqueue and queue_dequeue       *)
(* applied to the kernel queue with messages of any sender and with any    *)
(* filter, which is what they are written for.  Each message gets the next *)
(* id, so ids give the order of enqueueing.                                *)
(***************************************************************************)
QueueEnqueue(sender) ==
    /\ LET m == Message(sender, IPC_PID_KERNEL, next_message_id, 4, "ping")
           r == queue_enqueue(process_queues[IPC_PID_KERNEL], entry_pool, entry_in_use,
                              total_dropped, m)
       IN
       /\ next_message_id' = next_id(next_message_id)
       /\ process_queues' = [process_queues EXCEPT ![IPC_PID_KERNEL] = r.q]
       /\ entry_pool' = r.pool
       /\ entry_in_use' = r.inuse
       /\ total_dropped' = r.drops
       /\ last' = Call("queue_enqueue", sender, IPC_PID_KERNEL, 0, r.res, m, NullPtr, m)
    /\ UNCHANGED <<queue_initialized, ports, next_port_id, channels, next_channel_id>>
    /\ UNCHANGED shareVars

QueueDequeue(filter_sender) ==
    /\ LET r == queue_dequeue(process_queues[IPC_PID_KERNEL], entry_pool, entry_in_use,
                              filter_sender)
       IN
       /\ process_queues' = [process_queues EXCEPT ![IPC_PID_KERNEL] = r.q]
       /\ entry_pool' = r.pool
       /\ entry_in_use' = r.inuse
       /\ last' = RecvCall("queue_dequeue", IPC_PID_KERNEL, IPC_PID_KERNEL,
                           filter_sender, r.res, r.msg, r.sender)
    /\ UNCHANGED <<queue_initialized, ports, next_port_id, channels, next_channel_id,
                   next_message_id, total_dropped>>
    /\ UNCHANGED shareVars

QueueFilters == {NullPtr, Ptr(IPC_PID_ANY)} \cup {Ptr(p) : p \in Pids}

QueueCall ==
    \/ \E sender \in Pids : QueueEnqueue(sender)
    \/ \E f \in QueueFilters : QueueDequeue(f)

NextQueue ==
    /\ calls < MaxQueueCalls
    /\ calls' = calls + 1
    /\ UNCHANGED hwVars
    /\ QueueCall
    /\ UNCHANGED <<procVars, schedVars>>

SpecQueue == InitFresh /\ [][NextQueue]_vars

(***************************************************************************)
(* Named ports: creation under names of one byte, of 63 bytes (the longest *)
(* the name field holds besides its terminator) and of 64 bytes, and      *)
(* destruction.                                                            *)
(***************************************************************************)
NameOfLength(n) == [i \in 1 .. n |-> 1]

PortNames == {<<1>>, NameOfLength(PORT_NAME_SIZE - 1), NameOfLength(PORT_NAME_SIZE)}

PortCall ==
    \/ \E n \in PortNames : IpcPortCreate(n)
    \/ \E id \in PortIdArgs : IpcPortDestroy(id)

NextPort ==
    /\ calls < MaxPortCalls
    /\ calls' = calls + 1
    /\ UNCHANGED hwVars
    /\ PortCall
    /\ UNCHANGED <<procVars, schedVars>>

SpecPort == InitFresh /\ [][NextPort]_vars

(***************************************************************************)
(* The entry pool under every operation that takes an entry or gives one   *)
(* back: messages of legal length are sent by the kernel to processes,     *)
(* ports and channels, received, and the endpoints are destroyed with      *)
(* messages still queued.                                                   *)
(***************************************************************************)
PoolCall ==
    \/ \E pid \in Pids : IpcProcessInit(pid)
    \/ \E pid \in Pids : IpcProcessCleanup(pid)
    \/ \E r \in Pids, m \in InputMessages : IpcSend(IPC_PID_KERNEL, r, m)
    \/ \E c \in Pids : IpcReceive(c, Ptr(IPC_PID_ANY))
    \/ \E n \in ShortNames : IpcPortCreate(n)
    \/ \E id \in PortIdArgs : IpcPortDestroy(id)
    \/ \E id \in PortIdArgs, m \in InputMessages : IpcPortSend(id, m)
    \/ \E id \in PortIdArgs : IpcPortReceive(id)
    \/ \E e \in EndpointPairs : IpcChannelCreate(e[1], e[2])
    \/ \E id \in ChannelIdArgs : IpcChannelDestroy(id)
    \/ \E id \in ChannelIdArgs, m \in InputMessages : IpcChannelSend(IPC_PID_KERNEL, id, m)
    \/ \E c \in Pids, id \in ChannelIdArgs : IpcChannelReceive(c, id)

NextPool ==
    /\ calls < MaxPoolCalls
    /\ calls' = calls + 1
    /\ UNCHANGED hwVars
    /\ PoolCall
    /\ UNCHANGED <<procVars, schedVars>>

SpecPool == InitFresh /\ [][NextPool]_vars

(***************************************************************************)
(* Shared regions.                                                         *)
(***************************************************************************)
RegionIdArgs == {shared_regions[i].region_id : i \in RegionSlots} \cup {next_region_id}
PermissionArgs == {IPC_SHARE_READ, IPC_SHARE_READ + IPC_SHARE_WRITE + IPC_SHARE_EXEC}

ShareCall ==
    \/ IpcShareCreate
    \/ \E id \in RegionIdArgs : IpcShareDestroy(id)
    \/ \E id \in RegionIdArgs, g \in Pids, perm \in PermissionArgs : IpcShareGrant(id, g, perm)
    \/ \E id \in RegionIdArgs, g \in Pids : IpcShareRevoke(id, g)
    \/ \E id \in RegionIdArgs : IpcShareMap(id)
    \/ \E id \in RegionIdArgs : IpcShareUnmap(id)

NextShare ==
    /\ calls < MaxShareCalls
    /\ calls' = calls + 1
    /\ UNCHANGED hwVars
    /\ ShareCall
    /\ UNCHANGED <<procVars, schedVars>>

SpecShare == InitFresh /\ [][NextShare]_vars

(***************************************************************************)
(* The process manager.  process_create refuses every call until           *)
(* process_table_initialized is set, and process_init sets it only after   *)
(* it has created the kernel and the idle process; the runs start from the *)
(* table those two creations are written to build: the kernel process in   *)
(* slot 0, made running by process_init_kernel_process after process_create *)
(* has linked it into the ready list of its priority, the idle process     *)
(* ready in slot 1, and the IPC state as ipc_init, which follows in        *)
(* core_services_init, leaves it.                                          *)
(***************************************************************************)
\* The state process_init is written to build: the kernel and the idle
\* process created, each with its message queue, the kernel process running.
InitProc ==
    /\ ipc_init_then_open({KERNEL_PROCESS_ID, KERNEL_PROCESS_ID + 1})
    /\ SchedStatic
    /\ next_message_id = 1
    /\ entry_pool = [i \in PoolIdx |-> ZeroEntry]
    /\ process_table = InitProcTable.table
    /\ ready_queue = InitProcTable.rq
    /\ process_table_initialized = TRUE
    /\ current_process = Ptr(KERNEL_PROCESS_ID)
    /\ current_pid = KERNEL_PROCESS_ID
    /\ process_statistics =
          [ZeroStatistics EXCEPT !.total_processes = 2, !.active_processes = 2]
    /\ last = NoCall
    /\ HardwareInit
    /\ calls = 0

CreateParams ==
    {[name |-> <<3>>, priority |-> pr, parent_pid |-> pp, stack_size |-> 1] :
        pr \in {PRIORITY_IDLE, PRIORITY_NORMAL, PRIORITY_KERNEL},
        pp \in {KERNEL_PROCESS_ID, 1}}

ProcessPointers == {NullPtr} \cup {Ptr(p) : p \in Pids}

ProcCall ==
    \/ \E params \in CreateParams : ProcessCreate(params)
    \/ \E pid \in Pids : ProcessDestroy(pid)
    \/ \E pid \in Pids : ProcessExit(pid, 1)
    \/ \E pid \in Pids, st \in ProcessStates : ProcessSetState(pid, st)
    \/ ProcessScheduleNext
    \/ \E process \in ProcessPointers : ProcessSwitchTo(process)

NextProc ==
    /\ calls < MaxProcCalls
    /\ calls' = calls + 1
    /\ UNCHANGED hwVars
    /\ ProcCall
    /\ UNCHANGED schedVars

SpecProc == InitProc /\ [][NextProc]_vars

\* The process manager from a cold start: ipc_init has run, process_init has
\* not.  Message passing between processes is available at that point.
BootIpcCall ==
    \/ \E pid \in Pids : IpcProcessInit(pid)
    \/ \E pid \in Pids : IpcProcessCleanup(pid)
    \/ \E c \in Pids, r \in Pids, m \in InputMessages : IpcSend(c, r, m)
    \/ \E c \in Pids, f \in ReceiveFilters : IpcReceive(c, f)

NextBoot ==
    /\ calls < MaxBootCalls
    /\ last.res # boot_panic
    /\ calls' = calls + 1
    /\ UNCHANGED hwVars
    /\ \/ ProcessInit
       \/ ProcCall
       \/ BootIpcCall /\ UNCHANGED procVars
    /\ UNCHANGED schedVars

SpecBoot == InitFresh /\ [][NextBoot]_vars

\* The process manager after process_init, with messages in the queues.
NextLife ==
    /\ calls < MaxLifeCalls
    /\ calls' = calls + 1
    /\ UNCHANGED hwVars
    /\ \/ ProcCall
       \/ BootIpcCall /\ UNCHANGED procVars
    /\ UNCHANGED schedVars

SpecLife == InitProc /\ [][NextLife]_vars

(***************************************************************************)
(* Delivery: after process_init, processes send to each other and queues   *)
(* are cleaned up and opened a bounded number of times, while every        *)
(* process may call receive with filter ANY at any time and keeps doing so. *)
(***************************************************************************)
DeliverCall ==
    \/ \E c \in Pids, r \in Pids, m \in InputMessages : IpcSend(c, r, m)
    \/ \E pid \in Pids : IpcProcessCleanup(pid)
    \/ \E pid \in Pids : IpcProcessInit(pid)

\* Process c calls ipc_receive with filter ANY.
Poll(c) ==
    /\ IpcReceive(c, Ptr(IPC_PID_ANY))
    /\ UNCHANGED <<procVars, schedVars, hwVars, calls>>

NextDeliver ==
    \/ /\ calls < MaxDeliverCalls
       /\ calls' = calls + 1
       /\ DeliverCall
       /\ UNCHANGED <<procVars, schedVars, hwVars>>
    \/ \E c \in Pids : Poll(c)

\* Every process keeps calling receive.
SpecDeliver ==
    InitProc /\ [][NextDeliver]_vars /\ \A c \in Pids : WF_vars(Poll(c))

(***************************************************************************)
(* After core_services_init: process_init has built its table (opening the *)
(* queues of the kernel and the idle process through process_create), and  *)
(* ipc_init has run after it, so the IPC state is the one ipc_init leaves. *)
(* Processes are then created and destroyed and messages are sent.         *)
(***************************************************************************)
InitCore ==
    /\ ipc_init
    /\ SchedStatic
    /\ next_message_id = 1
    /\ entry_pool = [i \in PoolIdx |-> ZeroEntry]
    /\ process_table = InitProcTable.table
    /\ ready_queue = InitProcTable.rq
    /\ process_table_initialized = TRUE
    /\ current_process = Ptr(KERNEL_PROCESS_ID)
    /\ current_pid = KERNEL_PROCESS_ID
    /\ process_statistics =
          [ZeroStatistics EXCEPT !.total_processes = 2, !.active_processes = 2]
    /\ last = NoCall
    /\ HardwareInit
    /\ calls = 0

CoreCall ==
    \/ \E params \in CreateParams : ProcessCreate(params)
    \/ \E pid \in Pids : ProcessDestroy(pid)
    \/ \E c \in Pids, r \in Pids, m \in InputMessages :
          IpcSend(c, r, m) /\ UNCHANGED procVars

NextCore ==
    /\ calls < MaxCoreCalls
    /\ calls' = calls + 1
    /\ UNCHANGED <<hwVars, schedVars>>
    /\ CoreCall

SpecCore == InitCore /\ [][NextCore]_vars

(***************************************************************************)
(* The scheduler with the process manager under it: processes are created  *)
(* and made ready or blocked, registered with the scheduler, coupled,      *)
(* charged for a quantum, reset and unregistered, and the scheduler is     *)
(* asked for its decision.  The runs start from the process table of the   *)
(* process manager's runs and the scheduler's static state.                *)
(***************************************************************************)
SchedParams ==
    {[name |-> <<3>>, priority |-> pr, parent_pid |-> KERNEL_PROCESS_ID, stack_size |-> 1] :
        pr \in {PRIORITY_IDLE, PRIORITY_LOW}}

SchedClasses == {"RESONANT_CLASSICAL", "RESONANT_CONSCIOUSNESS"}

\* The runtime charged for a quantum: half of the default coherence deadline.
SchedRuntimes == {500000000}

SchedCall ==
    \/ ResonantSchedulerInit
    \/ \E pid \in RPids, rclass \in SchedClasses :
          ResonantRegister(pid, rclass, "HANDEDNESS_NEUTRAL")
    \/ \E pid \in RPids : ResonantUnregister(pid)
    \/ \E pid1 \in RPids, pid2 \in RPids : ResonantCouple(pid1, pid2)
    \/ \E pid1 \in RPids, pid2 \in RPids : ResonantDecouple(pid1, pid2)
    \/ \E pid \in RPids, rt \in SchedRuntimes : ResonantCompleteQuantum(pid, rt)
    \/ \E pid \in RPids : ResonantResetProcess(pid)
    \/ ResonantScheduleNext

SchedProcCall ==
    \/ \E params \in SchedParams : ProcessCreate(params)
    \/ \E pid \in Pids, st \in {"PROCESS_STATE_READY", "PROCESS_STATE_BLOCKED"} :
          ProcessSetState(pid, st)

NextSched ==
    /\ calls < MaxSchedCalls
    /\ calls' = calls + 1
    /\ UNCHANGED hwVars
    /\ \/ SchedCall /\ UNCHANGED <<ipcVars, shareVars, procVars>>
       \/ SchedProcCall /\ UNCHANGED schedVars

SpecSched == InitProc /\ [][NextSched]_vars

\* The scheduler with its tuning and recovery operations, for the two
\* processes process_init creates.
TunePids == {KERNEL_PROCESS_ID, KERNEL_PROCESS_ID + 1}

\* (eta, gamma) passed to resonant_set_chiral, in millionths: a quotient
\* below 1, a quotient of exactly 1, a negative eta and a negative gamma.
ChiralArgs ==
    {<<500000, 1000000>>, <<1000000, 1000000>>, <<0 - 2000000, 1000000>>,
     <<500000, 0 - 250000>>}

\* Factors passed to resonant_adjust_lambda, in thousandths: 2.0 and 0.5.
LambdaFactors == {2000, 500}

TuneCall ==
    \/ ResonantSchedulerInit
    \/ \E pid \in TunePids, rclass \in SchedClasses :
          ResonantRegister(pid, rclass, "HANDEDNESS_NEUTRAL")
    \/ \E pid \in TunePids : ResonantUnregister(pid)
    \/ \E pid1 \in TunePids, pid2 \in TunePids : ResonantCouple(pid1, pid2)
    \/ \E pid1 \in TunePids, pid2 \in TunePids : ResonantDecouple(pid1, pid2)
    \/ \E factor \in LambdaFactors : ResonantAdjustLambda(factor)
    \/ ResonantScheduleNext
    \/ \E pid \in TunePids, rt \in SchedRuntimes : ResonantCompleteQuantum(pid, rt)
    \/ \E pid \in TunePids : ResonantVerifyConsciousness(pid)
    \/ \E pid \in TunePids : ResonantEmergencyCoherence(pid)
    \/ \E pid \in TunePids : ResonantResetProcess(pid)
    \/ ResonantResetAll
    \/ \E pid \in TunePids, a \in ChiralArgs : ResonantSetChiral(pid, a[1], a[2])
    \/ \E pid \in TunePids : ResonantOptimizeChiral(pid)

NextTune ==
    /\ calls < MaxTuneCalls
    /\ calls' = calls + 1
    /\ UNCHANGED hwVars
    /\ TuneCall
    /\ UNCHANGED <<ipcVars, shareVars, procVars>>

SpecTune == InitProc /\ [][NextTune]_vars

(***************************************************************************)
(* Coupling among three registered processes.  The runs start from the     *)
(* state after process_init, one process_create, resonant_scheduler_init   *)
(* and resonant_register for each of the three processes, with no couplings *)
(* yet.                                                                    *)
(***************************************************************************)
CoupleParams ==
    [name |-> <<3>>, priority |-> PRIORITY_LOW, parent_pid |-> KERNEL_PROCESS_ID,
     stack_size |-> 1]

InitCouple ==
    LET created == find_free_pid(InitProcTable.table)
        r == process_create_pcb(InitProcTable.table, InitProcTable.rq, CoupleParams, created)
        registered == {KERNEL_PROCESS_ID, KERNEL_PROCESS_ID + 1, created}
    IN
    /\ ipc_init_then_open(registered)
    /\ next_message_id = 1
    /\ entry_pool = [i \in PoolIdx |-> ZeroEntry]
    /\ process_table = r.table
    /\ ready_queue = r.rq
    /\ process_table_initialized = TRUE
    /\ current_process = Ptr(KERNEL_PROCESS_ID)
    /\ current_pid = KERNEL_PROCESS_ID
    /\ process_statistics =
          [ZeroStatistics EXCEPT !.total_processes = 3, !.active_processes = 3]
    /\ rpcb_table = [i \in RPids |-> IF i \in registered
                                     THEN init_rpcb(i, "RESONANT_CLASSICAL")
                                     ELSE ZeroRPCB]
    /\ queen_state = [ZeroQueen EXCEPT !.lambda = LAMBDA_DEFAULT,
                                       !.eta = ETA_OPTIMAL,
                                       !.system_coherence = 500,
                                       !.globally_stable = TRUE,
                                       !.classical_count = 3]
    /\ scheduler_initialized = TRUE
    /\ decision = ZeroDecision
    /\ last = NoCall
    /\ HardwareInit
    /\ calls = 0

CoupleCall ==
    \/ \E pid \in RPids : ResonantRegister(pid, "RESONANT_CLASSICAL", "HANDEDNESS_NEUTRAL")
    \/ \E pid \in RPids : ResonantUnregister(pid)
    \/ \E pid1 \in RPids, pid2 \in RPids : ResonantCouple(pid1, pid2)
    \/ \E pid1 \in RPids, pid2 \in RPids : ResonantDecouple(pid1, pid2)

NextCouple ==
    /\ calls < MaxCoupleCalls
    /\ calls' = calls + 1
    /\ UNCHANGED hwVars
    /\ CoupleCall
    /\ UNCHANGED <<ipcVars, shareVars, procVars>>

SpecCouple == InitCouple /\ [][NextCouple]_vars

(***************************************************************************)
(* The oscillator of one registered process: its coherence is driven up    *)
(* and down by oscillator updates, its deadline is exhausted and restored, *)
(* and it is reset.  The runs start from the state of the coupling runs.   *)
(***************************************************************************)
OscPid == KERNEL_PROCESS_ID + 1

\* Alignment of an oscillator with the Queen's mean phase, in thousandths:
\* opposite, orthogonal, aligned.
Alignments == {0 - 1000, 0, 1000}

\* The runtime charged for a quantum: all of the default coherence deadline.
OscRuntimes == {1000000000}

OscCall ==
    \/ \E a \in Alignments : ResonantUpdateOscillator(OscPid, a)
    \/ \E rt \in OscRuntimes : ResonantCompleteQuantum(OscPid, rt)
    \/ ResonantEmergencyCoherence(OscPid)
    \/ ResonantResetProcess(OscPid)

NextOsc ==
    /\ calls < MaxOscCalls
    /\ calls' = calls + 1
    /\ UNCHANGED hwVars
    /\ OscCall
    /\ UNCHANGED <<ipcVars, shareVars, procVars>>

SpecOsc == InitCouple /\ [][NextOsc]_vars

(***************************************************************************)
(* Registered processes come and go: the three registered processes of the *)
(* coupling runs are destroyed and their slots created anew, charged for a *)
(* quantum, coupled, registered and unregistered.                          *)
(***************************************************************************)
ReapCall ==
    \/ \E pid \in RPids : ResonantRegister(pid, "RESONANT_CLASSICAL", "HANDEDNESS_NEUTRAL")
    \/ \E pid \in RPids : ResonantUnregister(pid)
    \/ \E pid1 \in RPids, pid2 \in RPids : ResonantCouple(pid1, pid2)
    \/ \E pid \in RPids, rt \in SchedRuntimes : ResonantCompleteQuantum(pid, rt)

ReapProcCall ==
    \/ \E params \in SchedParams : ProcessCreate(params)
    \/ \E pid \in Pids : ProcessDestroy(pid)

NextReap ==
    /\ calls < MaxReapCalls
    /\ calls' = calls + 1
    /\ UNCHANGED hwVars
    /\ \/ ReapCall /\ UNCHANGED <<ipcVars, shareVars, procVars>>
       \/ ReapProcCall /\ UNCHANGED schedVars

SpecReap == InitCouple /\ [][NextReap]_vars

(***************************************************************************)
(* The memory manager after memory_init: frames are allocated and freed,   *)
(* pages mapped and unmapped.  The frame that holds the allocator's bitmap *)
(* is not among the frames freed: a page table placed in it would overlay  *)
(* the bitmap.                                                             *)
(***************************************************************************)
\* Frame addresses passed to pmm_free_frame: every frame but the bitmap's,
\* and the first address past the last frame.
FrameArgs == {f * PAGE_SIZE : f \in (0 .. total_frames) \ {bitmap_frame}}

\* Virtual addresses: 0, the next page, and the first page of the second
\* top-level entry (0x8000000000).
VirtArgs == {<<0, 0>>, <<0, PAGE_SIZE>>, <<128, 0>>}

PhysArgs == {(total_frames - 1) * PAGE_SIZE, (total_frames - 2) * PAGE_SIZE}

PermArgs == {MEM_READ + MEM_EXECUTE, MEM_READ + MEM_WRITE}

MemoryCall ==
    \/ PmmAllocFrame
    \/ \E a \in FrameArgs : PmmFreeFrame(a)
    \/ \E v \in VirtArgs, p \in PhysArgs, perms \in PermArgs : MemoryMapPage(v, p, perms)
    \/ \E v \in VirtArgs : MemoryUnmapPage(v)

NextMem ==
    /\ calls < MaxMemCalls
    /\ calls' = calls + 1
    /\ MemoryCall
    /\ UNCHANGED <<ipcVars, shareVars, procVars, schedVars, interrupt_handlers>>

SpecMem == InitFresh /\ [][NextMem]_vars

\* Interrupt handlers are registered and unregistered; the vectors passed
\* include the first one past the table.
HandlerArgs == {NULL, 1, 2}

ContextArgs == {NULL, 1}

IrqCall ==
    \/ \E v \in 0 .. IDT_ENTRIES, h \in HandlerArgs, c \in ContextArgs :
          InterruptRegister(v, h, c)
    \/ \E v \in 0 .. IDT_ENTRIES : InterruptUnregister(v)

NextIrq ==
    /\ calls < MaxIrqCalls
    /\ calls' = calls + 1
    /\ IrqCall
    /\ UNCHANGED <<ipcVars, shareVars, procVars, schedVars, memVars>>

SpecIrq == InitFresh /\ [][NextIrq]_vars

(***************************************************************************)
(* Properties of the message queues.                                       *)
(***************************************************************************)
\* The entries met by following next from e, at most n of them.
RECURSIVE Walk(_, _, _)
Walk(pool, e, n) ==
    IF e = NULL \/ n = 0 THEN <<>>
    ELSE <<e>> \o Walk(pool, pool[e].next, n - 1)

\* The messages of a queue from head to tail.
QueueSeq(q, pool) ==
    LET w == Walk(pool, q.head, ENTRY_POOL_SIZE) IN
    [k \in 1 .. Len(w) |-> pool[w[k]].message]

AllQueues ==
    {process_queues[p] : p \in Pids}
    \cup {ports[i].queue : i \in PortSlots}
    \cup {channels[i].queue_a_to_b : i \in ChannelSlots}
    \cup {channels[i].queue_b_to_a : i \in ChannelSlots}

QueueWellFormed(q) ==
    LET w == Walk(entry_pool, q.head, ENTRY_POOL_SIZE) IN
    /\ 0 <= q.count /\ q.count <= q.max_size
    /\ (q.head = NULL) <=> (q.count = 0)
    /\ Len(w) = q.count
    /\ IF q.count = 0 THEN q.tail = q.head ELSE w[q.count] = q.tail

\* C1: after any sequence of IPC operations every message queue (of a
\* process, of a port, of either direction of a channel) has
\* 0 <= count <= max_size, a null head exactly when count = 0, and a next
\* chain from head that reaches tail in exactly count steps.
C1_EveryQueueWellFormed == \A q \in AllQueues : QueueWellFormed(q)

IsSpecific(filter_sender) == filter_sender # NullPtr /\ filter_sender[1] # IPC_PID_ANY

RemoveAt(seq, k) == SubSeq(seq, 1, k - 1) \o SubSeq(seq, k + 1, Len(seq))

\* C2: within one queue delivery is FIFO by send order.  An accepted enqueue
\* puts the message behind all queued ones; a successful dequeue returns the
\* first queued message (filter ANY or none) or the first queued message of
\* the sender asked for, never a later one while an earlier one of that
\* sender is queued, and the messages that remain keep their order.
C2_FifoBySendOrder ==
    [][LET before == QueueSeq(process_queues[IPC_PID_KERNEL], entry_pool)
           after == QueueSeq(process_queues'[IPC_PID_KERNEL], entry_pool')
           f == last'.filter
       IN
       /\ (last'.op = "queue_enqueue" /\ last'.res = "IPC_SUCCESS")
             => after = Append(before, last'.msg)
       /\ (last'.op = "queue_dequeue" /\ last'.res = "IPC_SUCCESS")
             => \E k \in 1 .. Len(before) :
                   /\ before[k] = last'.msg
                   /\ after = RemoveAt(before, k)
                   /\ IsSpecific(f) => before[k].sender_id = f[1]
                   /\ \A j \in 1 .. (k - 1) :
                         /\ IsSpecific(f)
                         /\ before[j].sender_id # f[1]
                         /\ before[j].message_id < before[k].message_id
      ]_vars

\* A sender-filtered dequeue has just taken a message from the middle of the
\* queue: an older and a newer message are still queued.
C2_Witness ==
    /\ last.op = "queue_dequeue"
    /\ last.res = "IPC_SUCCESS"
    /\ IsSpecific(last.filter)
    /\ LET now == QueueSeq(process_queues[IPC_PID_KERNEL], entry_pool) IN
       /\ Len(now) = 2
       /\ now[1].message_id < last.msg.message_id
       /\ last.msg.message_id < now[2].message_id

\* C3: a send to a process queue that already holds max_size messages
\* returns BufferFull, adds exactly one to the queue's dropped counter,
\* leaves its count and contents unchanged and takes no pool entry; a send
\* to a queue that is never drained and holds fewer than max_size messages
\* returns Success.
C3_FullQueueRejectsOnly ==
    [][(/\ last'.op = "send"
        /\ last'.target \in Pids
        /\ queue_initialized[last'.target]
        /\ last'.in.length <= IPC_MAX_MESSAGE_SIZE)
       => LET q == process_queues[last'.target]
              q2 == process_queues'[last'.target]
          IN
          IF q.count >= q.max_size
          THEN /\ last'.res = "IPC_ERROR_BUFFER_FULL"
               /\ q2 = [q EXCEPT !.dropped = q.dropped + 1]
               /\ QueueSeq(q2, entry_pool') = QueueSeq(q, entry_pool)
               /\ entry_in_use' = entry_in_use
          ELSE last'.res = "IPC_SUCCESS"
      ]_vars

\* C4: message ids come from one global counter and are strictly increasing
\* in assignment order: the id given to a message is smaller, as an unsigned
\* 32-bit number, than the id the next message will get.
C4_IdsStrictlyIncrease ==
    [][next_message_id' # next_message_id
          => /\ last'.msg.message_id = next_message_id
             /\ U32Less(next_message_id, next_message_id')
      ]_vars

\* C5: when process p has successfully sent a message to another process q
\* and q then receives with filter ANY from its otherwise empty queue, the
\* receive succeeds and reports sender p, with the length, the payload and
\* the message id of the send.
C5_RoundTripReportsSender ==
    [][(/\ last.op = "send"
        /\ last.res = "IPC_SUCCESS"
        /\ last.caller # last.target
        /\ process_queues[last.target].count = 1
        /\ last'.op = "receive"
        /\ last'.caller = last.target
        /\ last'.filter = Ptr(IPC_PID_ANY))
       => /\ last'.res = "IPC_SUCCESS"
          /\ last'.sender = Ptr(last.caller)
          /\ last'.msg.length = last.in.length
          /\ last'.msg.data = last.in.data
          /\ last'.msg.message_id = last.msg.message_id
      ]_vars

\* C15: on a channel with endpoints A and B only A or B can enqueue: a send
\* by A leaves queue B->A alone and a send by B leaves queue A->B alone, any
\* other caller gets IPC_ERROR_PERMISSION_DENIED and no channel queue
\* changes; a successful receive is by an endpoint and, when A # B, never
\* returns a message the receiver sent itself.
C15_ChannelEndpointsOnly ==
    [][\A s \in ChannelSlots :
          (last'.op \in {"channel_send", "channel_receive"}
           /\ find_channel(channels, last'.target) = s)
          => LET a == channels[s].endpoint_a
                 b == channels[s].endpoint_b
                 c == last'.caller
             IN
             /\ (last'.op = "channel_send" /\ c # a /\ c # b)
                   => /\ last'.res = "IPC_ERROR_PERMISSION_DENIED"
                      /\ channels' = channels
             /\ (last'.op = "channel_send" /\ c = a /\ a # b)
                   => channels'[s].queue_b_to_a = channels[s].queue_b_to_a
             /\ (last'.op = "channel_send" /\ c = b /\ a # b)
                   => channels'[s].queue_a_to_b = channels[s].queue_a_to_b
             /\ (last'.op = "channel_receive" /\ last'.res = "IPC_SUCCESS")
                   => /\ c \in {a, b}
                      /\ (a # b) => last'.msg.sender_id # c
      ]_vars

SendOps == {"send", "port_send", "channel_send"}

QueuedLengthsBounded ==
    \A q \in AllQueues :
        LET msgs == QueueSeq(q, entry_pool) IN
        \A k \in 1 .. Len(msgs) : msgs[k].length <= IPC_MAX_MESSAGE_SIZE

QueuesAndCountersUnchanged ==
    /\ UNCHANGED <<process_queues, ports, channels, entry_pool, entry_in_use,
                   total_dropped>>

\* C16: no queue ever holds a message whose length exceeds
\* IPC_MAX_MESSAGE_SIZE: a send, port_send or channel_send of a longer
\* message does not succeed and leaves all queues, the drop counters and the
\* entry pool unchanged.
C16_OversizeNeverQueued ==
    [][/\ QueuedLengthsBounded'
       /\ (last'.op \in SendOps /\ last'.in.length > IPC_MAX_MESSAGE_SIZE)
             => /\ last'.res # "IPC_SUCCESS"
                /\ QueuesAndCountersUnchanged
      ]_vars

\* The endpoint a send is addressed to cannot take messages.
Unreachable(op, target) ==
    \/ op = "send" /\ (target \notin Pids \/ ~queue_initialized[target])
    \/ /\ op = "port_send"
       /\ \/ find_port_by_id(ports, target) = NULL
          \/ ports[find_port_by_id(ports, target)].state # IPC_PORT_LISTENING
    \/ op = "channel_send" /\ find_channel(channels, target) = NULL

\* Some drop counter went up by one: the global one or one queue's own.
OneDropCounted ==
    \/ total_dropped' = total_dropped + 1
    \/ \E p \in Pids : process_queues'[p].dropped = U32Inc(process_queues[p].dropped)
    \/ \E i \in PortSlots : ports'[i].queue.dropped = U32Inc(ports[i].queue.dropped)

\* C17: for the three send forms a message of legal length sent to an
\* unreachable or closed endpoint (a pid without an initialised queue, an
\* unknown or closed port, an inactive channel) is dropped and counted: the
\* call returns an error, no queue's contents change, and a drop counter
\* goes up by one.
C17_UnreachableSendCounted ==
    [][(/\ last'.op \in SendOps
        /\ last'.in.length <= IPC_MAX_MESSAGE_SIZE
        /\ Unreachable(last'.op, last'.target))
       => /\ last'.res # "IPC_SUCCESS"
          /\ \A p \in Pids : QueueSeq(process_queues'[p], entry_pool')
                                = QueueSeq(process_queues[p], entry_pool)
          /\ entry_in_use' = entry_in_use
          /\ OneDropCounted
      ]_vars

(***************************************************************************)
(* Properties of the shared regions.                                       *)
(***************************************************************************)
ActiveGrants(s) == {j \in GrantSlots : region_grants[s][j].is_active}

RefCountMatchesGrants ==
    \A s \in RegionSlots :
        shared_regions[s].is_active
            => shared_regions[s].ref_count = 1 + Cardinality(ActiveGrants(s))

\* C6: every active region has ref_count = 1 + the number of its active
\* grants; a successful grant adds exactly one reference and a successful
\* revoke takes exactly one back, so that a grant followed by the revoke of
\* the same grantee leaves ref_count as it was.
C6_RefCountIsOnePlusGrants ==
    [][/\ RefCountMatchesGrants'
       /\ (last'.op \in {"share_grant", "share_revoke"} /\ last'.res = "IPC_SUCCESS")
             => LET s == find_region(shared_regions, last'.target) IN
                /\ s # NULL
                /\ shared_regions'[s].is_active
                /\ shared_regions'[s].ref_count =
                      IF last'.op = "share_grant"
                      THEN shared_regions[s].ref_count + 1
                      ELSE shared_regions[s].ref_count - 1
      ]_vars

\* A region with a grant outstanding, just after another grant was revoked.
C6_Witness ==
    /\ last.op = "share_revoke"
    /\ last.res = "IPC_SUCCESS"
    /\ \E s \in RegionSlots :
          /\ shared_regions[s].is_active
          /\ shared_regions[s].region_id = last.target
          /\ shared_regions[s].ref_count = 2

\* Region slot s holds an active grant to grantee g.
HasActiveGrant(s, g) ==
    \E j \in GrantSlots : /\ region_grants[s][j].is_active
                          /\ region_grants[s][j].grantee_id = g

AtMostOneGrantPerGrantee ==
    \A s \in RegionSlots : \A i \in GrantSlots, j \in GrantSlots :
        (/\ i # j
         /\ region_grants[s][i].is_active
         /\ region_grants[s][j].is_active)
           => region_grants[s][i].grantee_id # region_grants[s][j].grantee_id

\* C12: a share_grant of an active region to a grantee that already holds an
\* active grant of it returns AlreadyExists and changes nothing, whatever
\* grants and revokes came before; at every moment a region has at most one
\* active grant per grantee.
C12_DuplicateGrantRejected ==
    [][/\ AtMostOneGrantPerGrantee'
       /\ (/\ last'.op = "share_grant"
           /\ find_region(shared_regions, last'.target) # NULL
           /\ HasActiveGrant(find_region(shared_regions, last'.target), last'.arg))
             => /\ last'.res = "IPC_ERROR_ALREADY_EXISTS"
                /\ UNCHANGED shareVars]_vars

\* C13: a region is never destroyed while a grant on it is active: a region
\* slot goes from active to inactive only from a state in which it has no
\* active grant, and a share_destroy of a region with an active grant leaves
\* the region active.
C13_NoDestroyWhileGranted ==
    [][\A s \in RegionSlots :
          (shared_regions[s].is_active /\ ActiveGrants(s) # {})
             => shared_regions'[s].is_active]_vars

\* C14: no two open ports have equal stored names, whatever the length of
\* the names passed to port_create (63 bytes, 64 bytes or more included); a
\* name is free again only once the port holding it is destroyed.
C14_OpenPortNamesUnique ==
    \A i \in PortSlots, j \in PortSlots :
        (/\ i # j
         /\ ports[i].state # IPC_PORT_CLOSED
         /\ ports[j].state # IPC_PORT_CLOSED)
           => ports[i].name # ports[j].name

(***************************************************************************)
(* Properties of the process table.                                        *)
(***************************************************************************)
Running == {p \in Pids : process_table[p].state = "PROCESS_STATE_RUNNING"}

RECURSIVE ReadyWalk(_, _, _)
ReadyWalk(t, e, n) ==
    IF e = NullPtr \/ n = 0 THEN <<>>
    ELSE <<e[1]>> \o ReadyWalk(t, t[e[1]].next, n - 1)

\* How often PCB p is met on the ready list of priority k; a list that runs
\* into a cycle meets some PCB more than once.
Occurrences(p, k) ==
    LET w == ReadyWalk(process_table, ready_queue[k], MAX_PROCESSES + 1)
    IN Cardinality({i \in 1 .. Len(w) : w[i] = p})

NonEmptyLists == {k \in Priorities : ready_queue[k] # NullPtr}

\* The head of the non-empty ready list of highest priority.
HighestHead ==
    ready_queue[CHOOSE k \in NonEmptyLists : \A j \in NonEmptyLists : j <= k]

BecameReady(p) ==
    /\ process_table[p].state # "PROCESS_STATE_READY"
    /\ process_table'[p].state = "PROCESS_STATE_READY"

StaysReady(q, k) ==
    /\ process_table[q].state = "PROCESS_STATE_READY"
    /\ process_table'[q].state = "PROCESS_STATE_READY"
    /\ process_table[q].priority = k
    /\ process_table'[q].priority = k

C19_ProcessInitSucceeds ==
    [][(last'.op = "process_init" /\ ~process_table_initialized)
       => /\ last'.res = "STATUS_SUCCESS"
          /\ process_is_valid(process_table', KERNEL_PROCESS_ID)
          /\ process_table'[KERNEL_PROCESS_ID].state = "PROCESS_STATE_RUNNING"
          /\ process_is_valid(process_table', KERNEL_PROCESS_ID + 1)
          /\ process_table'[KERNEL_PROCESS_ID + 1].priority = PRIORITY_IDLE
          /\ current_process' = Ptr(KERNEL_PROCESS_ID)
          /\ current_pid' = KERNEL_PROCESS_ID
      ]_vars

\* The PCBs met on the ready lists.
OnReadyLists(t, rq) ==
    UNION {{w[i] : i \in 1 .. Len(w)} :
             w \in {ReadyWalk(t, rq[k], MAX_PROCESSES + 1) : k \in Priorities}}

\* The pool entries of a queue.
EntriesOf(q) ==
    LET w == Walk(entry_pool, q.head, ENTRY_POOL_SIZE) IN {w[i] : i \in 1 .. Len(w)}

DestroyedCleanly(pid) ==
    /\ last'.res = "STATUS_SUCCESS"
    /\ ~process_is_valid(process_table', pid)
    /\ process_get_by_pid(process_table', pid) = NullPtr
    /\ process_table'[pid].state = "PROCESS_STATE_UNUSED"
    /\ process_table'[pid].magic # PROCESS_MAGIC
    /\ pid \notin OnReadyLists(process_table', ready_queue')
    /\ process_queues'[pid].state = IPC_PORT_CLOSED
    /\ process_queues'[pid].head = NULL
    /\ process_queues'[pid].count = 0
    /\ \A e \in EntriesOf(process_queues[pid]) : ~entry_in_use'[e]

ChildOccurrences(t, parent, child) ==
    Cardinality({i \in 1 .. Len(t[parent].children) : t[parent].children[i] = child})

FamilyConsistent(t) ==
    /\ \A c \in Pids :
          (process_is_valid(t, c) /\ t[c].parent_pid # KERNEL_PROCESS_ID)
             => /\ process_is_valid(t, t[c].parent_pid)
                /\ ChildOccurrences(t, t[c].parent_pid, c) = 1
    /\ \A p \in Pids :
          process_is_valid(t, p)
             => \A i \in 1 .. Len(t[p].children) :
                   /\ process_is_valid(t, t[p].children[i])
                   /\ t[t[p].children[i]].parent_pid = p

LiveRPCBs == {a \in RPids : RPCB_IS_VALID(rpcb_table[a])}

Peers(a) == {rpcb_table[a].coupled_pids[i] : i \in 1 .. Len(rpcb_table[a].coupled_pids)}

CouplingSymmetricIrreflexive ==
    \A a \in LiveRPCBs : \A b \in Peers(a) :
        /\ b # a
        /\ b \in RPids
        /\ a \in Peers(b)

Abs(x) == IF x < 0 THEN 0 - x ELSE x

\* |eta / gamma| < 1.0, without the division.
AsymmetryBelowOne(rpcb) == rpcb.gamma # 0 /\ Abs(rpcb.eta) < Abs(rpcb.gamma)

QueenReaders ==
    {"resonant_couple", "resonant_decouple", "resonant_schedule_next",
     "resonant_complete_quantum", "resonant_verify_consciousness",
     "resonant_emergency_coherence", "resonant_reset_process", "resonant_set_chiral",
     "resonant_optimize_chiral"}

QueenWriters ==
    {"resonant_register", "resonant_unregister", "resonant_adjust_lambda",
     "resonant_reset_all"}

\* The Queen counter kept for a class.
CounterOf(rclass) ==
    CASE rclass = "RESONANT_CLASSICAL" -> "classical_count"
      [] rclass = "RESONANT_QUANTUM" -> "quantum_count"
      [] rclass = "RESONANT_HYBRID" -> "hybrid_count"
      [] rclass = "RESONANT_CONSCIOUSNESS" -> "conscious_count"
      [] rclass = "RESONANT_EMERGENCE" -> "emergent_count"

PeersLiveAndDistinct ==
    \A a \in LiveRPCBs :
        /\ Cardinality(Peers(a)) = Len(rpcb_table[a].coupled_pids)
        /\ Peers(a) \subseteq LiveRPCBs

Candidates ==
    {i \in RPids : /\ RPCB_IS_VALID(rpcb_table[i])
                   /\ rpcb_table[i].rstate # "RESONANT_STATE_DORMANT"
                   /\ process_is_ready(process_table, rpcb_table[i].pid)}

DerivedPriority(i) == calculate_resonant_priority(process_table, queen_state, rpcb_table[i])

\* The selected pid is a candidate, no candidate has a higher priority, and
\* no candidate of the same priority has a smaller pid.
SelectedIsBest ==
    /\ decision.selected_pid \in Candidates
    /\ \A c \in Candidates :
          /\ DerivedPriority(c) <= DerivedPriority(decision.selected_pid)
          /\ DerivedPriority(c) = DerivedPriority(decision.selected_pid)
                => decision.selected_pid <= rpcb_table[c].pid

\* C10: a successful schedule_next with at least one candidate selects a
\* candidate of maximum derived priority, and among candidates of exactly
\* that priority the one with the smallest pid.
C10_SelectsMaxPrioritySmallestPid ==
    [][(/\ last'.op = "resonant_schedule_next"
        /\ last'.res = "RESONANT_SUCCESS"
        /\ Candidates' # {})
          => SelectedIsBest']_vars

\* schedule_next has just chosen between two candidates of equal, maximum
\* priority and a third of lower priority is absent or beaten.
C10_Witness ==
    /\ last.op = "resonant_schedule_next"
    /\ last.res = "RESONANT_SUCCESS"
    /\ \E a \in Candidates, b \in Candidates :
          /\ 0 < a
          /\ a < b
          /\ DerivedPriority(a) = DerivedPriority(b)
          /\ \A c \in Candidates : DerivedPriority(c) <= DerivedPriority(a)
          /\ decision.selected_pid = a
          /\ decision.final_priority = DerivedPriority(a)

(***************************************************************************)
(* Properties of the memory manager and of interrupt registration.         *)
(***************************************************************************)
\* C25: memory_map_page on a virtual address whose leaf entry is present
\* returns MEM_ERROR_ALREADY_MAPPED and changes neither the page tables nor
\* the frame allocator.
C25_MapPresentLeafRejected ==
    [][(/\ last'.op = "memory_map_page"
        /\ leaf_present(phys_mem, vmm.pml4_table, last'.target))
       => /\ last'.res = "MEM_ERROR_ALREADY_MAPPED"
          /\ phys_mem' = phys_mem
          /\ pmm' = pmm]_vars

\* C26: a successful memory_map_page of a virtual address that was not
\* mapped, followed by memory_unmap_page of the same address, leaves every
\* page-table entry and the set of allocated frames as they were before the
\* map.  (mem_before holds the memory and the allocator before the map.)
C26_MapUnmapRestores ==
    [][(/\ last.op = "memory_map_page"
        /\ last.res = "MEM_SUCCESS"
        /\ ~leaf_present(mem_before.mem, vmm.pml4_table, last.target)
        /\ last'.op = "memory_unmap_page"
        /\ last'.target = last.target)
       => /\ last'.res = "MEM_SUCCESS"
          /\ phys_mem' = mem_before.mem
          /\ pmm'.frame_bitmap = mem_before.pmm.frame_bitmap]_vars

ClearBits(p) == {i \in 0 .. (p.total_frames - 1) : p.frame_bitmap[i] = 0}

\* C27: pmm_alloc_frame returns the address of the lowest frame whose bit is
\* clear and sets that bit, and returns NULL only when no bit is clear;
\* pmm_free_frame of a frame whose bit is clear returns
\* MEM_ERROR_INVALID_ADDRESS and changes nothing; free_frames is the number
\* of clear bits.
C27_FrameAllocatorExact ==
    [][/\ (last'.op = "pmm_alloc_frame" /\ ClearBits(pmm) # {})
             => /\ last'.arg # NULL
                /\ last'.arg \div PAGE_SIZE \in ClearBits(pmm)
                /\ \A i \in ClearBits(pmm) : last'.arg \div PAGE_SIZE <= i
                /\ ClearBits(pmm') = ClearBits(pmm) \ {last'.arg \div PAGE_SIZE}
       /\ (last'.op = "pmm_alloc_frame" /\ ClearBits(pmm) = {})
             => /\ last'.arg = NULL
                /\ pmm' = pmm
       /\ (/\ last'.op = "pmm_free_frame"
           /\ last'.arg \div PAGE_SIZE < pmm.total_frames
           /\ last'.arg \div PAGE_SIZE \in ClearBits(pmm))
             => /\ last'.res = "MEM_ERROR_INVALID_ADDRESS"
                /\ pmm' = pmm
       /\ pmm'.free_frames = Cardinality(ClearBits(pmm'))]_vars

\* C28: interrupt_register on a vector whose handler is not NULL returns
\* IRQ_ERROR_ALREADY_REGISTERED and leaves the table as it was;
\* interrupt_unregister clears the slot of its vector; and
\* interrupt_register on a vector whose handler is NULL, as after an
\* unregister, stores the handler and the context given.  No call changes
\* the slot of another vector.
C28_OneHandlerPerVector ==
    [][\A v \in Vectors :
          /\ (last'.op \in {"interrupt_register", "interrupt_unregister"} /\ last'.target # v)
                => interrupt_handlers'[v] = interrupt_handlers[v]
          /\ (/\ last'.op = "interrupt_register"
              /\ last'.target = v
              /\ interrupt_handlers[v].handler # NULL)
                => /\ last'.res = "IRQ_ERROR_ALREADY_REGISTERED"
                   /\ interrupt_handlers'[v] = interrupt_handlers[v]
          /\ (last'.op = "interrupt_unregister" /\ last'.target = v)
                => /\ last'.res = "IRQ_SUCCESS"
                   /\ interrupt_handlers'[v].handler = NULL
                   /\ interrupt_handlers'[v].context = NULL
          /\ (/\ last'.op = "interrupt_register"
              /\ last'.target = v
              /\ interrupt_handlers[v].handler = NULL)
                => /\ last'.res = "IRQ_SUCCESS"
                   /\ interrupt_handlers'[v].handler = last'.arg[1]
                   /\ interrupt_handlers'[v].context = last'.arg[2]
      ]_vars

\* A registration has just been refused on a vector that holds another
\* handler, which is still stored.
C28_Witness ==
    /\ last.op = "interrupt_register"
    /\ last.res = "IRQ_ERROR_ALREADY_REGISTERED"
    /\ interrupt_handlers[last.target].handler # NULL
    /\ interrupt_handlers[last.target].handler # last.arg[1]

ClassQuantum(rclass) ==
    IF rclass = "RESONANT_QUANTUM" THEN DEFAULT_QUANTUM_NS \div 2
    ELSE IF rclass = "RESONANT_CONSCIOUSNESS" THEN DEFAULT_QUANTUM_NS * 2
    ELSE DEFAULT_QUANTUM_NS

StateByValues(rpcb) ==
    IF rpcb.coherence < COHERENCE_MIN THEN "RESONANT_STATE_DECOHERENT"
    ELSE IF rpcb.coherence > COHERENCE_HIGH /\ rpcb.consciousness_verified
    THEN "RESONANT_STATE_CONSCIOUS"
    ELSE IF rpcb.emergence_norm > emergence_threshold THEN "RESONANT_STATE_EMERGENT"
    ELSE "RESONANT_STATE_COHERENT"

\* The state the oscillator update leaves, by the updated values and the
\* state before: between COHERENCE_MIN and COHERENCE_HIGH the state is kept.
StateByValuesAndBefore(rpcb, before) ==
    IF rpcb.coherence < COHERENCE_MIN THEN "RESONANT_STATE_DECOHERENT"
    ELSE IF rpcb.coherence <= COHERENCE_HIGH THEN before
    ELSE IF rpcb.consciousness_verified THEN "RESONANT_STATE_CONSCIOUS"
    ELSE IF rpcb.emergence_norm > emergence_threshold THEN "RESONANT_STATE_EMERGENT"
    ELSE "RESONANT_STATE_COHERENT"

ActivePCBs ==
    {p \in Pids : process_table[p].state \notin {"PROCESS_STATE_UNUSED", "PROCESS_STATE_ZOMBIE"}}

StatsTrackTable == process_statistics.active_processes = Cardinality(ActivePCBs)

C34_FailedMapUnwound ==
    [][(/\ last'.op = "memory_map_page"
        /\ last'.res = "MEM_ERROR_OUT_OF_MEMORY"
        /\ pmm.frame_bitmap[0] = 1)
       => /\ phys_mem' = phys_mem
          /\ pmm' = pmm]_vars

\* The queues that can hold messages: the queue of every initialised
\* process, of every port that is not closed, and both queues of every
\* active channel.
LiveQueues ==
    [kind : {"process"}, at : {p \in Pids : queue_initialized[p]}]
    \cup [kind : {"port"}, at : {i \in PortSlots : ports[i].state # IPC_PORT_CLOSED}]
    \cup [kind : {"a_to_b", "b_to_a"}, at : {i \in ChannelSlots : channels[i].is_active}]

QueueAt(l) ==
    IF l.kind = "process" THEN process_queues[l.at]
    ELSE IF l.kind = "port" THEN ports[l.at].queue
    ELSE IF l.kind = "a_to_b" THEN channels[l.at].queue_a_to_b
    ELSE channels[l.at].queue_b_to_a

RECURSIVE SumOfCounts(_)
SumOfCounts(ls) ==
    IF ls = {} THEN 0
    ELSE LET l == CHOOSE x \in ls : TRUE IN QueueAt(l).count + SumOfCounts(ls \ {l})

EntriesInUse == {e \in PoolIdx : entry_in_use[e]}

\* C35: at every moment the number of pool entries in use equals the sum of
\* count over the live queues, every entry in use is in exactly one live
\* queue, and no entry is in two of them: destroying a process, a port or a
\* channel returns every entry of its queues to the pool.
C35_EntryPoolConserved ==
    /\ Cardinality(EntriesInUse) = SumOfCounts(LiveQueues)
    /\ \A e \in EntriesInUse : \E l \in LiveQueues : e \in EntriesOf(QueueAt(l))
    /\ \A l1 \in LiveQueues, l2 \in LiveQueues :
          l1 # l2 => EntriesOf(QueueAt(l1)) \cap EntriesOf(QueueAt(l2)) = {}

\* A port that held two messages has just been destroyed, its entries are
\* back in the pool, and another live queue still holds a message.
C35_Witness ==
    /\ last.op = "port_destroy"
    /\ last.res = "IPC_SUCCESS"
    /\ \E i \in PortSlots :
          /\ ports[i].state = IPC_PORT_CLOSED
          /\ ports[i].queue.count = 2
          /\ Cardinality({e \in PoolIdx : ~entry_in_use[e] /\ entry_pool[e] # ZeroEntry}) = 2
    /\ EntriesInUse # {}

\* The messages queued for process p, from head to tail.
QueuedFor(p) == QueueSeq(process_queues[p], entry_pool)

\* A receive has just returned message id to process p.
ReturnedTo(p, id) ==
    /\ last.op = "receive"
    /\ last.caller = p
    /\ last.res = "IPC_SUCCESS"
    /\ last.msg.message_id = id

\* One step keeps the queue of p, appends to it, takes one message out
\* through a successful receive that returns that very message, or closes it.
QueueStepOf(p) ==
    LET before == QueuedFor(p)
        after == QueuedFor(p)'
    IN \/ ~queue_initialized'[p]
       \/ /\ Len(after) >= Len(before)
          /\ SubSeq(after, 1, Len(before)) = before
       \/ /\ last'.op = "receive"
          /\ last'.res = "IPC_SUCCESS"
          /\ \E k \in 1 .. Len(before) :
                /\ before[k] = last'.msg
                /\ after = RemoveAt(before, k)

\* C36: a message accepted by send stays in the receiver's queue unaltered
\* until one receive returns it or the queue is cleaned up, no receive
\* returns it a second time, and if the receiver keeps calling receive with
\* filter ANY the message is eventually returned to it (or its queue is
\* cleaned up).
C36_ExactlyOnceDelivery ==
    /\ [][\A p \in Pids : QueueStepOf(p)]_vars
    /\ \A p \in Pids : \A id \in 1 .. MaxDeliverCalls :
          (\E k \in 1 .. Len(QueuedFor(p)) : QueuedFor(p)[k].message_id = id)
             ~> (ReturnedTo(p, id) \/ ~queue_initialized[p])

\* The pids with an initialised, open IPC queue are the valid processes.
QueueIffValid ==
    \A p \in Pids :
       (queue_initialized[p] /\ process_queues[p].state = IPC_PORT_OPEN)
          <=> process_is_valid(process_table, p)

NextReadyIsReady ==
    LET next == process_get_next_ready(ready_queue) IN
    /\ next # NullPtr
    /\ process_is_valid(process_table, next[1])
    /\ process_table[next[1]].state = "PROCESS_STATE_READY"
    /\ (\A p \in Pids \ {KERNEL_PROCESS_ID + 1} :
           process_table[p].state # "PROCESS_STATE_READY")
          => next = Ptr(KERNEL_PROCESS_ID + 1)

=============================================================================
